---- MODULE Spec2Model ----
(***************************************************************************)
(* RepoScan: the AJAX / dynamic-code classification engine                 *)
(* (RepoScan-Analyser/src/ajax_detector.py, parser.py), the depth          *)
(* analyser's per-file classifier (repo_depth_analyser/src/scanner.py)     *)
(* and directory scan, the static/dynamic correlator                       *)
(* (crawler/comparer.py), the correlation tracker (crawler/tracker.py),    *)
(* the static scan loop (main.py) and the crawler (crawler/crawler.py).    *)
(*                                                                         *)
(* Texts are TLA+ strings; positions are 1-based, a span <<s, e>> covers   *)
(* the characters s .. e-1 (match.start()+1, match.end()+1).               *)
(***************************************************************************)
EXTENDS Integers, Sequences, FiniteSets, TLC

(***************************************************************************)
(* Strings (Python str operations used by the sources)                     *)
(***************************************************************************)
\* s[i-1:j] of Python: the characters i..j of s, clipped to s
Sub(s, i, j) ==
    LET lo == IF i < 1 THEN 1 ELSE i
        hi == IF j > Len(s) THEN Len(s) ELSE j
    IN  IF lo > hi THEN "" ELSE SubSeq(s, lo, hi)

Ch(s, i) == Sub(s, i, i)

Chars(s) == {Ch(s, i) : i \in 1..Len(s)}

UpperLetters == "ABCDEFGHIJKLMNOPQRSTUVWXYZ"

LowerLetters == "abcdefghijklmnopqrstuvwxyz"

Digits == "0123456789"

LowerOf == [c \in Chars(UpperLetters) |->
              Ch(LowerLetters, CHOOSE i \in 1..Len(UpperLetters) : Ch(UpperLetters, i) = c)]

\* str.lower()
RECURSIVE Lower(_)
Lower(s) ==
    IF s = "" THEN ""
    ELSE IF Len(s) = 1 THEN (IF s \in DOMAIN LowerOf THEN LowerOf[s] ELSE s)
    ELSE LET h == Len(s) \div 2
         IN  Lower(Sub(s, 1, h)) \o Lower(Sub(s, h + 1, Len(s)))

\* min(S) of a non-empty set of integers
MinOf(S) == CHOOSE x \in S : \A y \in S : x <= y

\* characters matched by \s and removed by str.strip()
Whitespace == {" ", "\t", "\n", "\r", "\f"}

\* characters matched by \w
WordChars == Chars(UpperLetters) \cup Chars(LowerLetters) \cup Chars(Digits) \cup {"_"}

\* The backtick cannot be written in a string of this language: the texts
\* and patterns of this module write the tilde for it.
Backtick == "~"

\* sub in s
Contains(s, sub) ==
    \E i \in 1..(Len(s) - Len(sub) + 1) : Sub(s, i, i + Len(sub) - 1) = sub

\* s.count(sub) for a non-empty sub (non-overlapping occurrences, left to right)
RECURSIVE CountFrom(_, _, _)
CountFrom(s, sub, i) ==
    LET occ == {q \in i..(Len(s) - Len(sub) + 1) : Sub(s, q, q + Len(sub) - 1) = sub}
    IN  IF occ = {} THEN 0 ELSE 1 + CountFrom(s, sub, MinOf(occ) + Len(sub))

Count(s, sub) == CountFrom(s, sub, 1)

\* s[:n]
Prefix(s, n) == Sub(s, 1, IF Len(s) < n THEN Len(s) ELSE n)

\* str.strip()
RECURSIVE LStrip(_)
LStrip(s) == IF s # "" /\ Ch(s, 1) \in Whitespace THEN LStrip(Sub(s, 2, Len(s))) ELSE s

RECURSIVE RStrip(_)
RStrip(s) ==
    IF s # "" /\ Ch(s, Len(s)) \in Whitespace THEN RStrip(Sub(s, 1, Len(s) - 1)) ELSE s

Strip(s) == RStrip(LStrip(s))

(***************************************************************************)
(* Regular expressions (Python re, backtracking, re.IGNORECASE).           *)
(* A pattern is a sequence of items; the matcher runs on the lower-cased   *)
(* text, so the literals below are written in lower case.                  *)
(*   <<"lit", s>>     the literal s                                        *)
(*   <<"b">>          \b                                                   *)
(*   <<"one", c>>     one character of class c                             *)
(*   <<"star", c>>    c*  (greedy)        <<"plus", c>>   c+  (greedy)     *)
(*   <<"alt", ss>>    (?:s1|s2|...) over literals, in order                *)
(*   <<"or", ps>>     (?:p1|p2|...) over patterns, in order                *)
(*   <<"opt", p>>     (?:p)?  (greedy)                                     *)
(*   <<"lazy", c>>    c*?  (shortest first)                                *)
(*   <<"not", p>>     (?!p)                                                *)
(***************************************************************************)
InClass(cls, c) ==
    CASE cls = "ws"        -> c \in Whitespace                          \* \s
      [] cls = "word"      -> c \in WordChars                           \* \w
      [] cls = "any"       -> c # "\n"                                  \* .
      [] cls = "quote"     -> c \in {"\"", "'"}                         \* ["\']
      [] cls = "notquote"  -> c \notin {"\"", "'"}                      \* [^'"]
      [] cls = "nottick"   -> c # Backtick                              \* all but the backtick
      [] cls = "notgt"     -> c # ">"                                   \* [^>]
      [] cls = "idstart"   -> c \in Chars(LowerLetters) \cup {"_", "$"} \* [a-zA-Z_$]
      [] cls = "idchar"    -> c \in Chars(LowerLetters) \cup Chars(Digits) \cup {"_", "$"}
      [] cls = "wsorclose" -> c \in Whitespace \cup {",", ")"}          \* (?:\s|,|\))
      [] cls = "all"       -> TRUE                                      \* [\s\S]
      [] cls = "imported"  -> c \in WordChars \cup Whitespace \cup {"{", "}", ",", "*"}

\* the length of the longest run of characters of class cls that starts at p
RunLen(cls, t, p) ==
    LET stops == {q \in p..Len(t) : ~InClass(cls, Ch(t, q))}
    IN  IF p > Len(t) THEN 0
        ELSE IF stops = {} THEN Len(t) - p + 1
        ELSE MinOf(stops) - p

\* <<p + hi, p + hi - 1, ..., p + lo>>: the ends a greedy repetition tries, longest first
Descending(p, hi, lo) == [k \in 1..(hi - lo + 1) |-> p + hi - (k - 1)]

\* <<p, p + 1, ..., p + hi>>: the ends a lazy repetition tries, shortest first
Ascending(p, hi) == [k \in 1..(hi + 1) |-> p + (k - 1)]

IsWordAt(t, p) == p >= 1 /\ p <= Len(t) /\ Ch(t, p) \in WordChars

RECURSIVE AllEnds(_, _, _, _), Cont(_, _, _, _, _, _), ItemEnds(_, _, _), AltEnds(_, _, _, _),
          OrEnds(_, _, _, _), ContAll(_, _, _, _)

\* the ends of the literals of ss that match at p, in the order of ss
AltEnds(ss, k, t, p) ==
    IF k > Len(ss) THEN <<>>
    ELSE (IF Sub(t, p, p + Len(ss[k]) - 1) = ss[k] THEN <<p + Len(ss[k])>> ELSE <<>>)
         \o AltEnds(ss, k + 1, t, p)

\* the positions at which one item can end when it starts at p, in the
\* order in which a backtracking matcher tries them
ItemEnds(it, t, p) ==
    CASE it[1] = "lit"  -> IF Sub(t, p, p + Len(it[2]) - 1) = it[2]
                           THEN <<p + Len(it[2])>> ELSE <<>>
      [] it[1] = "b"    -> IF IsWordAt(t, p - 1) # IsWordAt(t, p) THEN <<p>> ELSE <<>>
      [] it[1] = "one"  -> IF p <= Len(t) /\ InClass(it[2], Ch(t, p)) THEN <<p + 1>> ELSE <<>>
      [] it[1] = "star" -> Descending(p, RunLen(it[2], t, p), 0)
      [] it[1] = "plus" -> Descending(p, RunLen(it[2], t, p), 1)
      [] it[1] = "alt"  -> AltEnds(it[2], 1, t, p)
      [] it[1] = "or"   -> OrEnds(it[2], 1, t, p)
      [] it[1] = "opt"  -> AllEnds(it[2], 1, t, p) \o <<p>>
      [] it[1] = "lazy" -> Ascending(p, RunLen(it[2], t, p))
      [] it[1] = "not"  -> IF AllEnds(it[2], 1, t, p) = <<>> THEN <<p>> ELSE <<>>

OrEnds(ps, k, t, p) ==
    IF k > Len(ps) THEN <<>> ELSE AllEnds(ps[k], 1, t, p) \o OrEnds(ps, k + 1, t, p)

\* the ends of items[i+1..] from each of ends[lo..hi], in the order of ends
Cont(items, i, t, ends, lo, hi) ==
    IF lo > hi THEN <<>>
    ELSE IF lo = hi THEN AllEnds(items, i + 1, t, ends[lo])
    ELSE LET mid == (lo + hi) \div 2
         IN  Cont(items, i, t, ends, lo, mid) \o Cont(items, i, t, ends, mid + 1, hi)

\* every end of a match of items[i..] starting at p, in backtracking order
AllEnds(items, i, t, p) ==
    IF i > Len(items) THEN <<p>>
    ELSE ContAll(items, i, t, ItemEnds(items[i], t, p))

ContAll(items, i, t, ends) == Cont(items, i, t, ends, 1, Len(ends))

\* the end of the match of an alternation starting at p; 0 when none matches
FirstEnd(ends_of) ==
    LET hits == {a \in DOMAIN ends_of : ends_of[a] # <<>>}
    IN  IF hits = {} THEN 0 ELSE ends_of[MinOf(hits)][1]

MatchAt(alts, k, t, p) == FirstEnd([a \in k..Len(alts) |-> AllEnds(alts[a], 1, t, p)])

\* pattern.finditer(text): the spans of the non-overlapping matches, left to right
RECURSIVE FindIterFrom(_, _, _), NextSpans(_, _, _), AfterSpan(_, _, _, _)
FindIterFrom(alts, t, p) ==
    NextSpans(alts, t, [q \in p..Len(t) |-> MatchAt(alts, 1, t, q)])

\* end_at[q] is the end of the match that starts at q, 0 when there is none
NextSpans(alts, t, end_at) ==
    LET starts == {q \in DOMAIN end_at : end_at[q] # 0}
    IN  IF starts = {} THEN <<>>
        ELSE AfterSpan(alts, t, MinOf(starts), end_at[MinOf(starts)])

AfterSpan(alts, t, q, e) ==
    <<<<q, e>>>> \o FindIterFrom(alts, t, IF e > q THEN e ELSE q + 1)

FindIter(alts, text) == FindIterFrom(alts, Lower(text), 1)

\* len(pattern.findall(text))
FindAllCount(alts, text) == Len(FindIter(alts, text))

\* pattern.search(text) for a pattern  pre ( grp ) post  with one capturing
\* group: the span of the group in the first match, <<>> when there is none
PickEnd(e1, ends2, ok) == IF ok = {} THEN <<>> ELSE <<e1, ends2[MinOf(ok)]>>

GroupTry(grp, post, t, e1, ends2, j) ==
    PickEnd(e1, ends2, {m \in j..Len(ends2) : AllEnds(post, 1, t, ends2[m]) # <<>>})

FirstGroup(g, rest) == IF g # <<>> THEN g ELSE rest

RECURSIVE GroupAt(_, _, _, _, _, _, _)

GroupAt(pre, grp, post, t, p, ends1, j) ==
    IF j > Len(ends1) THEN <<>>
    ELSE FirstGroup(GroupTry(grp, post, t, ends1[j], AllEnds(grp, 1, t, ends1[j]), 1),
                    GroupAt(pre, grp, post, t, p, ends1, j + 1))

\* group_at[q] is the span of the group of the match that starts at q
FirstOf(group_at) ==
    LET hits == {q \in DOMAIN group_at : group_at[q] # <<>>}
    IN  IF hits = {} THEN <<>> ELSE group_at[MinOf(hits)]

SearchGroupFrom(pre, grp, post, t, p) ==
    FirstOf([q \in p..Len(t) |-> GroupAt(pre, grp, post, t, q, AllEnds(pre, 1, t, q), 1)])

GroupText(text, g) == IF g = <<>> THEN <<>> ELSE <<Sub(text, g[1], g[2] - 1)>>

\* the text of the capturing group (taken from the text as written), or
\* <<>> (None) when the pattern does not match
SearchGroup(pat, text) ==
    GroupText(text, SearchGroupFrom(pat.pre, pat.grp, pat.post, Lower(text), 1))

\* item constructors
L(s) == <<"lit", s>>

B == <<"b">>

S0 == <<"star", "ws">>

S1 == <<"plus", "ws">>

W1 == <<"plus", "word">>

Q == <<"one", "quote">>

Alt(ss) == <<"alt", ss>>

Or(ps) == <<"or", ps>>

Opt(p) == <<"opt", p>>

(***************************************************************************)
(* ajax_detector.py: the patterns                                          *)
(***************************************************************************)
\* 1. Main AJAX Call Pattern: the alternatives in their written order
\* (the depth analyser compiles the same alternation as patterns['ajax_call'])
AJAX_CALL_PATTERN == <<
    <<B, L("fetch"), S0, L("(")>>,
    <<L("new"), S1, L("xmlhttprequest"), S0, L("(")>>,
    <<Alt(<<"$", "jquery", "axios", "superagent", "http">>), S0, L("."), S0,
      Alt(<<"ajax", "get", "post", "getjson", "getscript", "load", "request",
            "ajaxsetup", "ajaxprefilter", "ajaxtransport", "param", "parsejson">>),
      S0, L("(")>>,
    <<L("."), Alt(<<"load", "ajaxstart", "ajaxsend", "ajaxsuccess", "ajaxerror",
                    "ajaxcomplete", "ajaxstop", "serialize", "serializearray">>),
      S0, L("(")>>,
    <<L(".open"), S0, L("("), S0, Q, Alt(<<"get", "post", "put", "delete", "patch">>), Q>>,
    <<B, L("onreadystatechange"), S0, L("=")>>,
    <<L(".send"), S0, L("(")>>,
    <<B, L("axios"), Opt(<<L("."), W1>>), S0, L("(")>>,
    <<L("new"), S1, L("websocket"), S0, L("(")>>,
    <<L("new"), S1, L("eventsource"), S0, L("(")>>,
    <<B, L("ajax"), S0, L(":"), S0, L("function")>>,
    <<L("navigator.sendbeacon"), S0, L("(")>>,
    <<L("new"), S1, L("activexobject"), S0, L("(")>>,
    <<B, L("io"), S0, L("(")>>,
    <<L("hubconnectionbuilder")>>,
    <<B, L("sys.net.webrequest"), S0, L("(")>>,
    <<B, L("pagemethods."), W1, S0, L("(")>>,
    <<B, L("__dopostback"), S0, L("(")>>,
    <<B, L("sys.webforms.pagerequestmanager")>>,
    <<B, L("data-ajax"), Opt(<<L("-"), W1>>), S0, L("=")>>,
    <<L(".setrequestheader"), S0, L("(")>>,
    <<L(".abort"), S0, L("(")>>,
    <<L(".getresponseheader"), S0, L("(")>>,
    <<L(".getallresponseheaders"), S0, L("(")>>,
    <<L("new"), S1, L("headers"), S0, L("(")>>,
    <<L("new"), S1, L("request"), S0, L("(")>>,
    <<B, L("json.parse"), S0, L("(")>>,
    <<B, L("json.stringify"), S0, L("(")>>,
    <<L("<"), W1, L(":updatepanel")>>,
    <<L("<"), W1, L(":scriptmanager")>>,
    <<B, L("scriptmanager.registerstartupscript"), S0, L("(")>>,
    <<B, L("scriptmanager.registerclientscriptblock"), S0, L("(")>>,
    <<B, L("clientscript.registerstartupscript"), S0, L("(")>>,
    <<B, L("clientscript.registerclientscriptblock"), S0, L("(")>>,
    <<B, L("page.clientscript"), S0, L(".")>>,
    <<L("[webmethod]")>>,
    <<L("[scriptmethod]")>>,
    <<L("[webservice]")>>,
    <<L("[operationcontract]")>>,
    <<L("[apicontroller]")>>,
    <<L("[route("), S0, Q, L("api/")>>,
    <<L("[hubname]")>>,
    <<B, L("hubconnection.start"), S0, L("(")>>,
    <<B, L("clients.all")>>,
    <<B, L("clients.caller")>>,
    <<L("@ajax.actionlink")>>,
    <<L("@ajax.beginform")>>,
    <<L("@url.action"), S0, L("(")>>,
    <<L("@url.content"), S0, L("(")>>,
    <<L("<system.web.extensions>")>>,
    <<L("<scriptresourcehandler>")>>,
    <<L("<telerik:radajaxmanager")>>,
    <<L("<telerik:radajaxpanel")>>,
    <<B, L("radajaxmanager"), B>>,
    <<B, L("aspxcallback")>>,
    <<B, L("aspxcallbackpanel")>>,
    <<L("$http"), B>>,
    <<B, L("this.http.get"), S0, L("(")>>,
    <<B, L("this.http.post"), S0, L("(")>>,
    <<B, L("usequery"), S0, L("(")>>,
    <<B, L("usemutation"), S0, L("(")>>,
    <<B, L("new"), S1, L("ajax.request"), S0, L("(")>>,
    <<B, L("new"), S1, L("request"), Opt(<<<<"one", "any">>, L("json")>>), S0, L("(")>>,
    <<B, L("datatype"), S0, L(":"), S0, Q, L("jsonp"), Q>>,
    <<B, L("response.write"), S0, L("("), S0, Q, L("<script")>>,
    <<B, L("channelfactory<")>>,
    <<B, L("httpclient"), S1>>,
    <<B, L("ijsruntime"), B>>,
    <<L("[http"), Alt(<<"get", "post", "put", "delete", "patch", "options">>), L("]")>>,
    <<B, L("backgroundfetch"), B>>,
    <<B, L("ijsruntime"), B>>,
    <<L("[http"), Alt(<<"get", "post", "put", "delete", "patch", "options">>), L("]")>>,
    <<B, L("backgroundfetch"), B>>,
    <<L("target="), Q, Opt(<<L("_")>>), L("iframe"), Q>>,
    <<L("<iframe"), B, <<"star", "notgt">>, L("style="), Q, <<"star", "any">>,
      L("display:"), S0, L("none")>>,
    <<L("<iframe"), B, <<"star", "notgt">>, L("style="), Q, <<"star", "any">>,
      L("display:"), S0, L("none")>>,
    <<B, L("new"), S1, L("formdata"), B>>,
    <<B, L("new"), S1, L("image"), S0, L("(")>>,
    <<L(".src"), S0, L("="), S0, Q, L("http")>>
>>

\* URL extraction patterns: pre ( grp ) post
URL_PATTERNS == [
    url_property   |-> [pre |-> <<L("url"), S0, L(":"), S0, Q>>,
                        grp |-> <<<<"plus", "notquote">>>>, post |-> <<Q>>],
    url_concat     |-> [pre |-> <<L("url"), S0, L(":"), S0>>,
                        grp |-> <<<<"one", "idstart">>, <<"star", "idchar">>, S0, L("+"), S0,
                                  Q, <<"plus", "notquote">>, Q>>,
                        post |-> <<>>],
    url_template   |-> [pre |-> <<L("url"), S0, L(":"), S0, L(Backtick)>>,
                        grp |-> <<<<"plus", "nottick">>>>, post |-> <<L(Backtick)>>],
    url_variable   |-> [pre |-> <<L("url"), S0, L(":"), S0>>,
                        grp |-> <<<<"one", "idstart">>, <<"star", "idchar">>>>,
                        post |-> <<<<"one", "wsorclose">>>>],
    fetch_literal  |-> [pre |-> <<L("fetch"), S0, L("("), S0, Q>>,
                        grp |-> <<<<"plus", "notquote">>>>, post |-> <<Q>>],
    fetch_template |-> [pre |-> <<L("fetch"), S0, L("("), S0, L(Backtick)>>,
                        grp |-> <<<<"plus", "nottick">>>>, post |-> <<L(Backtick)>>],
    \* group(2) of the source; its group (1) is the method name
    jquery_literal |-> [pre |-> <<L("$."), Alt(<<"get", "post", "getjson", "load">>),
                                  S0, L("("), S0, Q>>,
                        grp |-> <<<<"plus", "notquote">>>>, post |-> <<Q>>],
    axios_literal  |-> [pre |-> <<L("axios."), Alt(<<"get", "post", "put", "delete", "patch">>),
                                  S0, L("("), S0, Q>>,
                        grp |-> <<<<"plus", "notquote">>>>, post |-> <<Q>>]
]

\* the prefix of the region text that endpoint extraction looks at
SEARCH_LIMIT == 1000

\* a variant of GenericPick with no last resort: nothing found gives the empty string
GenericPickEmpty(tpl, prop, cat, var) ==
    IF tpl # <<>> THEN tpl[1]
    ELSE IF prop # <<>>
         THEN (IF Contains(prop[1], "@") \/ Contains(prop[1], "<%")
               THEN "Server-Generated" ELSE prop[1])
    ELSE IF cat # <<>> THEN cat[1]
    ELSE IF var # <<>> THEN "Dynamic/Variable"
    ELSE ""

\* extract_endpoint_url(code, pattern_match): the literal or templated URL of
\* the first 1000 characters of the region, or a sentinel
\* the generic patterns, tried in the order template, property, concatenation, variable
GenericPick(tpl, prop, cat, var) ==
    IF tpl # <<>> THEN tpl[1]
    ELSE IF prop # <<>>
         THEN (IF Contains(prop[1], "@") \/ Contains(prop[1], "<%")
               THEN "Server-Generated" ELSE prop[1])
    ELSE IF cat # <<>> THEN cat[1]
    ELSE IF var # <<>> THEN "Dynamic/Variable"
    ELSE "Unknown/Dynamic"

GenericEndpoint(search_code) ==
    GenericPick(SearchGroup(URL_PATTERNS.url_template, search_code),
                SearchGroup(URL_PATTERNS.url_property, search_code),
                SearchGroup(URL_PATTERNS.url_concat, search_code),
                SearchGroup(URL_PATTERNS.url_variable, search_code))

\* a variant of EndpointPick that never tries the library-specific patterns
EndpointGenericOnly(pattern_match, ftpl, flit, jq, ax, generic) == generic

\* the library-specific patterns first, then the generic ones
EndpointPick(pattern_match, ftpl, flit, jq, ax, generic) ==
    IF Contains(pattern_match, "fetch")
    THEN (IF ftpl # <<>> THEN ftpl[1]
          ELSE IF flit # <<>> THEN flit[1]
          ELSE generic)
    ELSE IF Contains(pattern_match, "jquery") \/ Contains(pattern_match, "$")
    THEN (IF jq # <<>> THEN jq[1] ELSE generic)
    ELSE IF Contains(pattern_match, "axios")
    THEN (IF ax # <<>> THEN ax[1] ELSE generic)
    ELSE generic

\* a variant of extract_endpoint_url that searches the whole region text
extract_endpoint_url_unlimited(code, pattern_match) ==
    EndpointPick(pattern_match,
                 SearchGroup(URL_PATTERNS.fetch_template, code),
                 SearchGroup(URL_PATTERNS.fetch_literal, code),
                 SearchGroup(URL_PATTERNS.jquery_literal, code),
                 SearchGroup(URL_PATTERNS.axios_literal, code),
                 GenericEndpoint(code))

extract_endpoint_url(code, pattern_match) ==
    EndpointPick(pattern_match,
                 SearchGroup(URL_PATTERNS.fetch_template, Prefix(code, SEARCH_LIMIT)),
                 SearchGroup(URL_PATTERNS.fetch_literal, Prefix(code, SEARCH_LIMIT)),
                 SearchGroup(URL_PATTERNS.jquery_literal, Prefix(code, SEARCH_LIMIT)),
                 SearchGroup(URL_PATTERNS.axios_literal, Prefix(code, SEARCH_LIMIT)),
                 GenericEndpoint(Prefix(code, SEARCH_LIMIT)))

(***************************************************************************)
(* ajax_detector.detect_ajax_patterns: the classification of one match     *)
(***************************************************************************)
V(cat, cap, diff, req) ==
    [category |-> cat, capability |-> cap, difficulty |-> diff, is_logical_request |-> req]

Has(lm, tok) == Contains(lm, tok)

\* a variant of HasAny for which no token list ever matches
HasNoneOf(lm, toks) == FALSE

HasAny(lm, toks) == \E tok \in toks : Contains(lm, tok)

\* the if/elif chain over lower_match; a branch sets the fields it names and
\* leaves the others at category "Request", capability "Data Exchange",
\* difficulty "Easy", is_logical_request True
ClassifyAjax(lm) ==
    IF Has(lm, "sendbeacon") THEN V("Request", "Telemetry", "Easy", TRUE)
    ELSE IF Has(lm, "getscript") \/ Has(lm, ".js")
         THEN V("Request", "Script Loading (Dynamic)", "Hard", TRUE)
    ELSE IF Has(lm, ".css") THEN V("Request", "CSS Loading", "Medium", TRUE)
    ELSE IF Has(lm, ".html") THEN V("Request", "UI Injection", "Medium", TRUE)
    ELSE IF Has(lm, "load") /\ ~Has(lm, "payload")
         THEN V("Request", "UI Injection (Likely)", "Medium", TRUE)
    ELSE IF HasAny(lm, {"ajaxsetup", "ajaxprefilter", "ajaxtransport"})
         THEN V("Config", "AJAX Configuration", "Easy", FALSE)
    ELSE IF HasAny(lm, {"ajaxstart", "ajaxsend", "ajaxsuccess", "ajaxerror", "ajaxcomplete",
                        "ajaxstop", "onreadystatechange"})
         THEN V("Event", "Global Event Handler", "Hard (Refactoring Risk)", FALSE)
    ELSE IF HasAny(lm, {"serialize", "param", "parsejson"})
         THEN V("Utility", "Form/Data Utility", "Easy", FALSE)
    ELSE IF Has(lm, "sys.net.webrequest") THEN V("Request", "Data Exchange (Legacy)", "Hard", TRUE)
    ELSE IF Has(lm, "pagemethods") THEN V("Request", "RPC (Code-Behind)", "Hard", TRUE)
    ELSE IF Has(lm, "__dopostback") THEN V("Request", "Partial Postback", "Medium", TRUE)
    ELSE IF Has(lm, "data-ajax") THEN V("Request", "Declarative AJAX", "Easy", TRUE)
    ELSE IF Has(lm, "sys.webforms") THEN V("Config", "UpdatePanel Config", "Hard", FALSE)
    ELSE IF HasAny(lm, {"setrequestheader", "getresponseheader", "getallresponseheaders"})
         THEN V("Config", "Request Header Manipulation", "Medium", FALSE)
    ELSE IF Has(lm, "abort") THEN V("Utility", "Request Control", "Easy", FALSE)
    ELSE IF Has(lm, "json.parse") \/ Has(lm, "json.stringify")
         THEN V("Utility", "JSON Utility", "Easy", FALSE)
    ELSE IF Has(lm, "new headers") \/ Has(lm, "new request")
         THEN V("Construct", "Fetch API Construct", "Easy", FALSE)
    ELSE IF Has(lm, "updatepanel")
         THEN V("Request", "Partial Rendering (UpdatePanel)", "Hard", TRUE)
    ELSE IF Has(lm, "scriptmanager") \/ Has(lm, "clientscript")
         THEN V("Server", "Server-Side Script Injection", "Hard", FALSE)
    ELSE IF Has(lm, "webmethod") \/ Has(lm, "scriptmethod") \/ Has(lm, "webservice")
         THEN V("Server", "AJAX Endpoint (Server)", "Medium", FALSE)
    ELSE IF Has(lm, "apicontroller") \/ Has(lm, "[route")
         THEN V("Server", "API Endpoint (Server)", "Medium", FALSE)
    ELSE IF Has(lm, "operationcontract") THEN V("Server", "WCF Endpoint (Server)", "Hard", FALSE)
    ELSE IF Has(lm, "hubname") \/ Has(lm, "clients.all") \/ Has(lm, "clients.caller")
         THEN V("Server", "SignalR Hub (Server)", "Hard", FALSE)
    ELSE IF Has(lm, "hubconnection") THEN V("Real-time", "SignalR Client", "Easy", TRUE)
    ELSE IF Has(lm, "@ajax") THEN V("Request", "Razor AJAX Helper", "Easy", TRUE)
    ELSE IF Has(lm, "@url") THEN V("Construct", "Dynamic URL Generation", "Easy", FALSE)
    ELSE IF Has(lm, "<system.web.extensions>") \/ Has(lm, "scriptresourcehandler")
         THEN V("Config", "AJAX Configuration", "Medium", FALSE)
    ELSE IF Has(lm, "radajax") \/ Has(lm, "telerik")
         THEN V("Third-Party", "Telerik AJAX Control", "Hard (Vendor Lock-in)", TRUE)
    ELSE IF Has(lm, "aspxcallback")
         THEN V("Third-Party", "DevExpress AJAX Control", "Hard (Vendor Lock-in)", TRUE)
    ELSE IF Has(lm, "response.write")
         THEN V("Server", "Direct Script Injection", "High (Security Risk)", FALSE)
    ELSE IF Has(lm, "channelfactory") THEN V("Server", "WCF Client Proxy", "Hard", TRUE)
    ELSE IF Has(lm, "httpclient") THEN V("Server/Blazor", ".NET HttpClient", "Easy", TRUE)
    ELSE IF Has(lm, "ijsruntime") THEN V("Blazor", "Blazor JS Interop", "Medium", FALSE)
    ELSE IF Has(lm, "[http") THEN V("Server", "API Endpoint Verb", "Easy", FALSE)
    ELSE IF Has(lm, "backgroundfetch")
         THEN V("Service Worker", "Background Sync/Fetch", "Medium", TRUE)
    ELSE IF Has(lm, "iframe") THEN V("Legacy Pattern", "Hidden Iframe (Pseudo-AJAX)", "Hard", TRUE)
    ELSE IF Has(lm, "formdata") THEN V("Construct", "Form Data Construction", "Easy", FALSE)
    ELSE IF Has(lm, "new image") \/ Has(lm, ".src")
         THEN V("Request", "Pixel Tracking (Image)", "Easy", TRUE)
    ELSE IF Has(lm, "usequery") \/ Has(lm, "usemutation")
         THEN V("Modern Framework", "Modern Data Fetching (React Query)", "Easy", TRUE)
    ELSE IF Has(lm, "this.http") THEN V("Modern Framework", "Angular HttpClient", "Easy", TRUE)
    ELSE IF Has(lm, "ajax.request") \/ Has(lm, "new request")
         THEN (IF Has(lm, "ajax.request")
               THEN V("Legacy Lib", "Prototype.js AJAX", "Hard", TRUE)
               ELSE V(IF Has(lm, "mootools") THEN "Legacy Lib" ELSE "Construct",
                      "MooTools/Fetch Request", "Hard", TRUE))
    ELSE IF Has(lm, "jsonp")
         THEN V("Legacy Pattern", "JSONP (Legacy Cross-Domain)", "Hard (Security Risk)", TRUE)
    ELSE IF Has(lm, "new xmlhttprequest") \/ Has(lm, ".open")
         THEN V("Construct", "XHR Construct", "Easy", ~Has(lm, "xmlhttprequest"))
    ELSE V("Request", "Data Exchange", "Easy", TRUE)

(***************************************************************************)
(* repo_depth_analyser Scanner.count_lines_and_analyze: the classification *)
(* of one match of patterns['ajax_call']                                   *)
(***************************************************************************)
ClassifyDepth(lm) ==
    IF Has(lm, "sendbeacon") THEN V("Request", "Telemetry", "Easy", TRUE)
    ELSE IF Has(lm, "getscript") \/ Has(lm, ".js")
         THEN V("Request", "Script Loading (Dynamic)", "Hard", TRUE)
    ELSE IF Has(lm, ".css") THEN V("Request", "CSS Loading", "Medium", TRUE)
    ELSE IF Has(lm, ".html") THEN V("Request", "UI Injection", "Medium", TRUE)
    ELSE IF Has(lm, "load") /\ ~Has(lm, "payload")
         THEN V("Request", "UI Injection (Likely)", "Medium", TRUE)
    ELSE IF HasAny(lm, {"ajaxsetup", "ajaxprefilter", "ajaxtransport"})
         THEN V("Config", "AJAX Configuration", "Easy", FALSE)
    ELSE IF HasAny(lm, {"ajaxstart", "ajaxsend", "ajaxsuccess", "ajaxerror", "ajaxcomplete",
                        "ajaxstop", "onreadystatechange"})
         THEN V("Event", "Global Event Handler", "Hard (Refactoring Risk)", FALSE)
    ELSE IF HasAny(lm, {"serialize", "param", "parsejson"})
         THEN V("Utility", "Form/Data Utility", "Easy", FALSE)
    ELSE IF Has(lm, "sys.net.webrequest") THEN V("Request", "Data Exchange (Legacy)", "Hard", TRUE)
    ELSE IF Has(lm, "pagemethods") THEN V("Request", "RPC (Code-Behind)", "Hard", TRUE)
    ELSE IF Has(lm, "__dopostback") THEN V("Request", "Partial Postback", "Medium", TRUE)
    ELSE IF Has(lm, "data-ajax") THEN V("Request", "Declarative AJAX", "Easy", TRUE)
    ELSE IF Has(lm, "sys.webforms") THEN V("Config", "UpdatePanel Config", "Hard", FALSE)
    ELSE IF HasAny(lm, {"setrequestheader", "getresponseheader", "getallresponseheaders"})
         THEN V("Config", "Request Header Manipulation", "Medium", FALSE)
    ELSE IF Has(lm, "abort") THEN V("Utility", "Request Control", "Easy", FALSE)
    ELSE IF Has(lm, "json.parse") \/ Has(lm, "json.stringify")
         THEN V("Utility", "JSON Utility", "Easy", FALSE)
    ELSE IF Has(lm, "new headers") \/ Has(lm, "new request")
         THEN V("Construct", "Fetch API Construct", "Easy", FALSE)
    ELSE IF Has(lm, "updatepanel")
         THEN V("Request", "Partial Rendering (UpdatePanel)", "Hard", TRUE)
    ELSE IF Has(lm, "scriptmanager") \/ Has(lm, "clientscript")
         THEN V("Server", "Server-Side Script Injection", "Hard", FALSE)
    ELSE IF Has(lm, "webmethod") \/ Has(lm, "scriptmethod") \/ Has(lm, "webservice")
         THEN V("Server", "AJAX Endpoint (Server)", "Medium", FALSE)
    ELSE IF Has(lm, "apicontroller") \/ Has(lm, "[route")
         THEN V("Server", "API Endpoint (Server)", "Medium", FALSE)
    ELSE IF Has(lm, "operationcontract") THEN V("Server", "WCF Endpoint (Server)", "Hard", FALSE)
    ELSE IF Has(lm, "hubname") \/ Has(lm, "clients.all") \/ Has(lm, "clients.caller")
         THEN V("Server", "SignalR Hub (Server)", "Hard", FALSE)
    ELSE IF Has(lm, "hubconnection") THEN V("Real-time", "SignalR Client", "Medium", TRUE)
    ELSE IF Has(lm, "@ajax") THEN V("Request", "Razor AJAX Helper", "Medium", TRUE)
    ELSE IF Has(lm, "@url") THEN V("Construct", "Dynamic URL Generation", "Easy", FALSE)
    ELSE IF Has(lm, "<system.web.extensions>") \/ Has(lm, "scriptresourcehandler")
         THEN V("Config", "AJAX Configuration", "Medium", FALSE)
    ELSE IF Has(lm, "radajax") \/ Has(lm, "telerik")
         THEN V("Third-Party", "Telerik AJAX Control", "Hard (Vendor Lock-in)", TRUE)
    ELSE IF Has(lm, "aspxcallback")
         THEN V("Third-Party", "DevExpress AJAX Control", "Hard (Vendor Lock-in)", TRUE)
    ELSE IF Has(lm, "response.write")
         THEN V("Server", "Direct Script Injection", "High (Security Risk)", FALSE)
    ELSE IF Has(lm, "channelfactory") THEN V("Server", "WCF Client Proxy", "Hard", TRUE)
    ELSE IF Has(lm, "httpclient") THEN V("Server/Blazor", ".NET HttpClient", "Easy", TRUE)
    ELSE IF Has(lm, "ijsruntime") THEN V("Blazor", "Blazor JS Interop", "Medium", FALSE)
    ELSE IF Has(lm, "[http") THEN V("Server", "API Endpoint Verb", "Easy", FALSE)
    ELSE IF Has(lm, "backgroundfetch")
         THEN V("Service Worker", "Background Sync/Fetch", "Medium", TRUE)
    ELSE IF Has(lm, "iframe") THEN V("Legacy Pattern", "Hidden Iframe (Pseudo-AJAX)", "Hard", TRUE)
    ELSE IF Has(lm, "formdata") THEN V("Construct", "Form Data Construction", "Easy", FALSE)
    ELSE IF Has(lm, "new image") \/ Has(lm, ".src")
         THEN V("Request", "Pixel Tracking (Image)", "Easy", TRUE)
    ELSE IF Has(lm, "usequery") \/ Has(lm, "usemutation")
         THEN V("Modern Framework", "Modern Data Fetching (React Query)", "Easy", TRUE)
    ELSE IF Has(lm, "this.http") THEN V("Modern Framework", "Angular HttpClient", "Easy", TRUE)
    ELSE IF Has(lm, "ajax.request") \/ Has(lm, "new request")
         THEN (IF Has(lm, "ajax.request")
               THEN V("Legacy Lib", "Prototype.js AJAX", "Hard", TRUE)
               ELSE V(IF Has(lm, "mootools") THEN "Legacy Lib" ELSE "Construct",
                      "MooTools/Fetch Request", "Hard", TRUE))
    ELSE IF Has(lm, "jsonp")
         THEN V("Legacy Pattern", "JSONP (Legacy Cross-Domain)", "Hard (Security Risk)", TRUE)
    ELSE IF Has(lm, "new xmlhttprequest") \/ Has(lm, ".open")
         THEN V("Construct", "XHR Construct", "Easy", FALSE)
    ELSE IF Has(lm, "new websocket") \/ Has(lm, "new eventsource")
         THEN V("Construct", "Real-time Construct", "Easy", ~Has(lm, "xmlhttprequest"))
    ELSE V("Request", "Data Exchange", "Easy", TRUE)

(***************************************************************************)
(* Server-side dependency patterns (ajax_detector.SERVER_PATTERNS) and the *)
(* dynamic-code patterns of Parser.__init__, each in its written order     *)
(***************************************************************************)
SERVER_PATTERNS == <<
    <<<<L("@model.")>>>>,
    <<<<L("@viewbag.")>>>>,
    <<<<L("@viewdata.")>>>>,
    <<<<L("@url.action")>>>>,
    <<<<L("@url.content")>>>>,
    <<<<L("<%=")>>>>,
    <<<<L("<%:")>>>>,
    <<<<L("<%"), <<"one", "ws">>>>>>,
    \* \{\{.*?\}\}: searched for, so the lazy star finds what the greedy one finds
    <<<<L("{{"), <<"star", "any">>, L("}}")>>>>,
    <<<<B, L("response.write"), B>>>>,
    <<<<B, L("request.form"), B>>>>
>>

dynamic_patterns == <<
    [name |-> "dom_sink",
     pat |-> <<<<L("."), Alt(<<"innerhtml", "outerhtml", "insertadjacenthtml", "write",
                               "writeln">>), S0, L("=")>>>>],
    [name |-> "js_sink",
     pat |-> <<<<B, Or(<<<<L("eval")>>, <<L("new"), S1, L("function")>>, <<L("settimeout")>>,
                         <<L("setinterval")>>, <<L("import")>>, <<L("system.import")>>>>),
                 S0, L("(")>>>>],
    [name |-> "dynamic_load",
     pat |-> <<<<L("."), Alt(<<"src", "href">>), S0, L("="), S0>>,
               <<L("document.createelement"), S0, L("("), S0, Q,
                 Alt(<<"script", "style", "link">>), Q, S0, L(")")>>>>],
    [name |-> "dynamic_css",
     pat |-> <<<<L(".style."), W1, S0, L("=")>>,
               <<<<"one", "any">>, L("style["), S0, Q, <<"plus", "notquote">>, Q, S0, L("]"),
                 S0, L("=")>>,
               <<<<"one", "any">>, L("csstext"), S0, L("=")>>,
               <<L("setproperty"), S0, L("(")>>,
               <<L("insertrule"), S0, L("(")>>,
               <<L("addrule"), S0, L("(")>>,
               <<L("setattribute"), S0, L("("), S0, Q, L("style"), Q>>,
               <<<<"one", "any">>, L("classlist."),
                 Alt(<<"add", "remove", "toggle", "replace">>), S0, L("(")>>,
               <<L("new"), S1, L("cssstylesheet"), S0, L("(")>>,
               <<L("adoptedstylesheets")>>>>],
    [name |-> "css_in_js",
     pat |-> <<<<L("styled."), W1>>, <<L("css"), L(Backtick)>>, <<L("styled"), S0, L("(")>>>>]
>>

\* pattern.search(text) is not None
Searches(alts, text) == FindIter(alts, text) # <<>>

(***************************************************************************)
(* Parser: the patterns of the Phase 4 metrics (_calculate_complexity,     *)
(* _assess_severity), each in its written order                            *)
(***************************************************************************)
\* \bfunction\s+\w+|\bif\s*\(|\bfor\s*\(|\bwhile\s*\(
logic_structures == <<
    <<B, L("function"), S1, W1>>,
    <<B, L("if"), S0, L("(")>>,
    <<B, L("for"), S0, L("(")>>,
    <<B, L("while"), S0, L("(")>>
>>

\* \.addeventlistener
event_listeners == <<<<L(".addeventlistener")>>>>

\* document\.getelementbyid|document\.queryselector|\$\(["\']
dom_selector_patterns == <<
    <<L("document.getelementbyid")>>,
    <<L("document.queryselector")>>,
    <<L("$("), Q>>
>>

\* @Model\.|<%\s
severity_high == <<<<L("@model.")>>, <<L("<%"), <<"one", "ws">>>>>>

\* @Url\.|@ViewBag\.|@ViewData\.
severity_medium == <<<<L("@url.")>>, <<L("@viewbag.")>>, <<L("@viewdata.")>>>>

\* <%=|@DateTime\.
severity_low == <<<<L("<%=")>>, <<L("@datetime.")>>>>

(***************************************************************************)
(* The regions of the model: what the extraction passes of Parser.parse    *)
(* (_scan_regex, the standalone-JS step, _scan_dom) put in all_findings:   *)
(* full_code, category, code_type and start_line of a CodeSnippet          *)
(***************************************************************************)
\* the source_type the construction site of each code_type passes
SourceType(kind) ==
    IF kind \in {"External Script", "External Style", "External Style (@import)"} THEN "REMOTE"
    ELSE IF kind \in {"standalone_js", "Internal Script", "Internal Style"} THEN "LOCAL"
    ELSE "INLINE"

\* end_line is line_num plus the newlines of the text at every construction
\* site but the standalone-JS step
Seed(code, cat, kind, line) ==
    [full_code |-> code, category |-> cat, code_type |-> kind, start_line |-> line,
     end_line |-> line + Count(code, "\n"), source_type |-> SourceType(kind)]

\* _scan_regex on a document: a line that holds href="javascript:, stripped
RegexSeeds == {
    Seed("<a href=\"javascript:go()\">x</a>", "JS", "jsuri", 6)
}

\* a .js file with one text matched by AJAX_CALL_PATTERN for each branch of
\* the Fetch API Construct, hidden iframe, Prototype.js, MooTools and XHR rules of
\* detect_ajax_patterns: the text satisfies the condition of the branch
Tour ==
    "new Headers();\n" \o
    "new Ajax.Request('/p');\n" \o
    "new Request('/r');\n" \o
    "<iframe name='mootools new Request' style='display:none'>;\n" \o
    "<iframe style='display:none'>;\n" \o
    "x = new XMLHttpRequest();\n" \o
    "x.open('GET', u)"

\* the contents of the .js files of the model
JsContents == {
    Tour,
    "x.open('GET', u);\nx.send();\nfetch(~/t/${id}~)\n",
    "\nif (a) { $.post('/s', d) }",
    "var h = '<a href=\"javascript:go()\">x</a>';\n  x.send()",
    "s = \" <a HREF=' javascript:a()'> \";\nt = '<a href=\"javascript:b()\">';",
    "",
    " \n",
    "function f() { for (i = 0; i < n; i++) { if (a) { el.addEventListener('click', f) } } }",
    "document.getElementById('x').value = 1",
    "if (a) { $('#x').hide() }"
}

\* text.splitlines() for a text whose only line boundaries are "\n"
RECURSIVE SplitLines(_)
SplitLines(text) ==
    IF text = "" THEN <<>>
    ELSE IF ~Contains(text, "\n") THEN <<text>>
    ELSE <<Sub(text, 1, MinOf({i \in 1..Len(text) : Ch(text, i) = "\n"}) - 1)>>
         \o SplitLines(Sub(text, MinOf({i \in 1..Len(text) : Ch(text, i) = "\n"}) + 1, Len(text)))

\* href=["']\s*javascript:  with re.IGNORECASE
js_proto_pattern == <<<<L("href="), Q, S0, L("javascript:")>>>>

\* Parser._scan_regex: the loop over the lines, from line i
RECURSIVE ScanLines(_, _)
ScanLines(lines, i) ==
    IF i > Len(lines) THEN <<>>
    ELSE (IF Searches(js_proto_pattern, lines[i])
          THEN <<Seed(Strip(lines[i]), "JS", "jsuri", i)>> ELSE <<>>)
         \o ScanLines(lines, i + 1)

scan_regex(text) == ScanLines(SplitLines(text), 1)

\* a variant of Standalone whose end_line is computed as for the other regions
StandaloneByNewlines(text) ==
    Seed(Strip(text), "JS", "standalone_js", 1)

\* the standalone-JS step of Parser.parse: the region of a .js file
Standalone(text) ==
    [Seed(Strip(text), "JS", "standalone_js", 1) EXCEPT !.end_line = Len(SplitLines(text))]

\* all_findings of a .js file after steps 1 and 1.5
JsExtractionTable == {<<c, scan_regex(c) \o <<Standalone(c)>>>> : c \in JsContents}

JsExtraction(text) == (CHOOSE t \in JsExtractionTable : t[1] = text)[2]

\* the regions of the .js files of the model
JsSeeds == UNION {{t[2][i] : i \in DOMAIN t[2]} : t \in JsExtractionTable}

\* s repeated n times
RECURSIVE Repeated(_, _)
Repeated(s, n) ==
    IF n <= 0 THEN ""
    ELSE IF n = 1 THEN s
    ELSE Repeated(s, n \div 2) \o Repeated(s, n - (n \div 2))

\* a script block whose text is as long as the prefix that
\* extract_endpoint_url searches and holds no URL
LongHead == "fetch(u)" \o Repeated(";", SEARCH_LIMIT - Len("fetch(u)"))

\* _scan_dom: script blocks (stripped), event handlers and javascript: URIs
\* (the attribute value as written), style blocks
DomSeeds == {
    Seed(LongHead \o "fetch('/late')", "JS", "scriptblock", 2),
    Seed(LongHead \o "fetch('/other')", "JS", "scriptblock", 2),
    Seed("fetch('/api/users')", "JS", "scriptblock", 3),
    Seed("$.ajaxSetup({timeout: 3000})", "JS", "scriptblock", 1),
    Seed("document.write('<script>')", "JS", "scriptblock", 7),
    Seed("var u = '@Model.UserId';", "JS", "scriptblock", 2),
    Seed("el.innerHTML = h; setTimeout(f, 9)", "JS", "onclick", 5),
    Seed("$.getScript('a.js');\n$('#x').load('p.html')", "JS", "scriptblock", 4),
    Seed("new Request.JSON({url: '/m'})", "JS", "scriptblock", 1),
    Seed("PageMethods.load(1);\\n x.send()", "JS", "onload", 9),
    Seed("$.ajax({url: '@Url.Action(\"A\")'})", "JS", "scriptblock", 6),
    Seed("$.ajax({url: apiUrl, data: $(f).serialize()})", "JS", "scriptblock", 8),
    Seed("fetch('/a'); x.abort(); fetch('/b')", "JS", "scriptblock", 2),
    Seed("new XMLHttpRequest(); img.src = 'http://t/p'", "JS", "scriptblock", 1),
    Seed("fetch('/a')", "JS", "onclick", 4),
    Seed(" fetch('/a') ", "JS", "onclick", 4),
    Seed("javascript:go()", "JS", "jsuri", 6),
    Seed("a { background: url('fetch(/x)') }", "CSS", "styleblock", 5)
}

Seeds == RegexSeeds \cup JsSeeds \cup DomSeeds

Codes == {sd.full_code : sd \in Seeds}

FilePaths == {"site.js", "View.cshtml"}

\* The regular expressions are evaluated once per text of the corpus; the
\* tables below hold the results and the operators after them look them up.

\* list(AJAX_CALL_PATTERN.finditer(code))
AjaxMatchTable == { <<c, FindIter(AJAX_CALL_PATTERN, c)>> : c \in Codes }

AjaxMatches(c) == (CHOOSE t \in AjaxMatchTable : t[1] = c)[2]

\* match.group().lower() of every match of a text
LowerMatches(t) == {Lower(Sub(t[1], t[2][m][1], t[2][m][2] - 1)) : m \in DOMAIN t[2]}

\* extract_endpoint_url(code, lower_match)
EndpointTable ==
    UNION { { <<t[1], lm, extract_endpoint_url(t[1], lm)>> : lm \in LowerMatches(t) } :
            t \in AjaxMatchTable }

Endpoint(c, lm) == (CHOOSE t \in EndpointTable : t[1] = c /\ t[2] = lm)[3]

\* len(pattern.findall(code)) for each of dynamic_patterns, in dict order
DynamicCountTable ==
    { <<c, i, FindAllCount(dynamic_patterns[i].pat, c)>> :
        c \in Codes, i \in DOMAIN dynamic_patterns }

DynamicCounts(c) ==
    [i \in DOMAIN dynamic_patterns |->
        (CHOOSE t \in DynamicCountTable : t[1] = c /\ t[2] = i)[3]]

\* any(dep_pattern.search(code) for dep_pattern in SERVER_PATTERNS)
ServerDepTable ==
    { <<c, \E i \in DOMAIN SERVER_PATTERNS : Searches(SERVER_PATTERNS[i], c)>> : c \in Codes }

ServerDeps(c) == (CHOOSE t \in ServerDepTable : t[1] = c)[2]

\* the findall counts and the searches of the Phase 4 metrics
Phase4Table ==
    { <<c, [logic     |-> FindAllCount(logic_structures, c),
            listeners |-> FindAllCount(event_listeners, c),
            selectors |-> FindAllCount(dom_selector_patterns, c),
            high      |-> Searches(severity_high, c),
            medium    |-> Searches(severity_medium, c),
            low       |-> Searches(severity_low, c)]>> : c \in Codes }

Phase4(c) == (CHOOSE t \in Phase4Table : t[1] = c)[2]

(***************************************************************************)
(* repo_depth_analyser Scanner.__init__: self.patterns, each alternation   *)
(* in its written order (patterns['ajax_call'] is AJAX_CALL_PATTERN)       *)
(***************************************************************************)
NQ0 == <<"star", "notquote">>

NQ1 == <<"plus", "notquote">>

NotGt == <<"star", "notgt">>

depth_patterns == [
    \* style\s*=\s*["\'][^"\']*["\']
    inline_css |-> <<<<L("style"), S0, L("="), S0, Q, NQ0, Q>>>>,
    \* <style\b[^>]*>[\s\S]*?</style>
    internal_style_blocks |->
        <<<<L("<style"), B, NotGt, L(">"), <<"lazy", "all">>, L("</style>")>>>>,
    \* <link\b[^>]*rel\s*=\s*["\']stylesheet["\'][^>]*>|@import\s+(?:url\()?["\'][^"\']+["\']
    external_stylesheet_links |->
        <<<<L("<link"), B, NotGt, L("rel"), S0, L("="), S0, Q, L("stylesheet"), Q, NotGt, L(">")>>,
          <<L("@import"), S1, Opt(<<L("url(")>>), Q, NQ1, Q>>>>,
    \* \bon\w+\s*=\s*["\'][^"\']*["\']|href=["\']\s*javascript:
    inline_js |->
        <<<<B, L("on"), W1, S0, L("="), S0, Q, NQ0, Q>>,
          <<L("href="), Q, S0, L("javascript:")>>>>,
    \* <script\b(?![^>]*\bsrc=)[^>]*>[\s\S]*?</script>
    internal_script_blocks |->
        <<<<L("<script"), B, <<"not", <<NotGt, B, L("src=")>>>>, NotGt, L(">"),
            <<"lazy", "all">>, L("</script>")>>>>,
    \* <script\b[^>]*src\s*=\s*["\'][^"\']+["\'][^>]*>
    \* |\bimport\s+(?:[\w\s{},*]+from\s+)?["\'][^"\']+["\']
    \* |\brequire\s*\(\s*["\'][^"\']+["\']\s*\)|\bdefine\s*\(\s*\[
    external_script_tags |->
        <<<<L("<script"), B, NotGt, L("src"), S0, L("="), S0, Q, NQ1, Q, NotGt, L(">")>>,
          <<B, L("import"), S1, Opt(<<<<"plus", "imported">>, L("from"), S1>>), Q, NQ1, Q>>,
          <<B, L("require"), S0, L("("), S0, Q, NQ1, Q, S0, L(")")>>,
          <<B, L("define"), S0, L("("), S0, L("[")>>>>,
    css_in_js |-> <<<<L("styled."), W1>>, <<L("css"), L(Backtick)>>, <<L("styled"), S0, L("(")>>>>,
    dynamic_js |->
        <<<<L(".src"), S0, L("="), S0, Q, NQ1, L(".js"), Q>>,
          <<L("document.createelement"), S0, L("("), S0, Q, L("script"), Q, S0, L(")")>>,
          <<L(".appendchild"), S0, L("(")>>,
          <<L(".insertbefore"), S0, L("(")>>,
          <<L("eval"), S0, L("(")>>,
          <<L("new"), S1, L("function"), S0, L("(")>>,
          <<L("settimeout"), S0, L("(")>>,
          <<L("setinterval"), S0, L("(")>>,
          <<L("import"), S0, L("(")>>,
          <<L("system.import"), S0, L("(")>>,
          <<L("require"), S0, L("(")>>,
          <<L("innerhtml"), S0, L("=")>>,
          <<L("outerhtml"), S0, L("=")>>,
          <<L("insertadjacenthtml"), S0, L("(")>>,
          <<L("document.write"), S0, L("(")>>>>,
    dynamic_css |->
        <<<<L(".src"), S0, L("="), S0, Q, NQ1, L(".css"), Q>>,
          <<L("document.createelement"), S0, L("("), S0, Q, L("style"), Q, S0, L(")")>>,
          <<L("document.createelement"), S0, L("("), S0, Q, L("link"), Q, S0, L(")")>>,
          <<L(".rel"), S0, L("="), S0, Q, L("stylesheet"), Q>>,
          <<L(".href"), S0, L("="), S0, Q, NQ1, L(".css"), Q>>,
          <<L(".style."), W1, S0, L("=")>>,
          <<L(".style["), S0, Q, NQ1, Q, S0, L("]"), S0, L("=")>>,
          <<L(".csstext"), S0, L("=")>>,
          <<L("setproperty"), S0, L("(")>>,
          <<L("insertrule"), S0, L("(")>>,
          <<L("addrule"), S0, L("(")>>,
          <<L("setattribute"), S0, L("("), S0, Q, L("style"), Q>>,
          <<L(".classlist."), Alt(<<"add", "remove", "toggle", "replace">>), S0, L("(")>>,
          <<L("new"), S1, L("cssstylesheet"), S0, L("(")>>,
          <<L("adoptedstylesheets")>>>>
]

\* the extensions count_lines_and_analyze runs the client-side patterns on
web_exts == {".html", ".htm", ".aspx", ".ascx", ".cshtml", ".vbhtml", ".master",
             ".php", ".jsp", ".js", ".ts", ".vue", ".jsx", ".tsx", ".razor",
             ".cs", ".vb", ".ashx", ".asmx", ".config"}

\* the files of the model the depth analyser reads
DepthContents == {
    "<script>fetch('/api/users')</script>",
    "<div style='c:red' onclick=\"$.ajaxSetup({timeout: 3000})\">",
    "var x = new XMLHttpRequest();\nx.open('GET', u);\nx.send();",
    "<script src='a.js'></script>\n<style>p{}</style>\nnew WebSocket(u)",
    "$.getScript('a.js'); el.innerHTML = h;\nel.style.top = 1;",
    "import x from 'y';\n<link rel='stylesheet' href='s.css'>",
    "no calls here"
}

DepthPaths == {"site.js", "View.cshtml", "notes.txt"}

\* len(self.patterns[name].findall(content)) for the patterns count_lines_and_analyze counts
DepthCountTable ==
    { <<c, [inline_css                |-> FindAllCount(depth_patterns.inline_css, c),
            internal_style_blocks     |-> FindAllCount(depth_patterns.internal_style_blocks, c),
            external_stylesheet_links |-> FindAllCount(depth_patterns.external_stylesheet_links, c),
            inline_js                 |-> FindAllCount(depth_patterns.inline_js, c),
            internal_script_blocks    |-> FindAllCount(depth_patterns.internal_script_blocks, c),
            external_script_tags      |-> FindAllCount(depth_patterns.external_script_tags, c),
            dynamic_js                |-> FindAllCount(depth_patterns.dynamic_js, c),
            dynamic_css               |-> FindAllCount(depth_patterns.dynamic_css, c),
            css_in_js                 |-> FindAllCount(depth_patterns.css_in_js, c)]>> :
        c \in DepthContents }

DepthCounts(c) == (CHOOSE t \in DepthCountTable : t[1] = c)[2]

\* list(self.patterns['ajax_call'].finditer(content))
DepthMatchTable == { <<c, FindIter(AJAX_CALL_PATTERN, c)>> : c \in DepthContents }

DepthMatches(c) == (CHOOSE t \in DepthMatchTable : t[1] = c)[2]

(***************************************************************************)
(* State                                                                   *)
(***************************************************************************)
VARIABLES
    pc,            \* the step the run is at
    all_findings,  \* Parser.parse: the regions of the extraction passes
    findings,      \* Parser.parse: unique_findings, the CodeSnippet objects
    cur,           \* Parser.parse: index of the finding the enrichment loop is at
    matches,       \* the spans of the matches the classification loop runs over
    match_no,      \* index of the match the classification loop is at
    first_classification_done,
    filepath,          \* Scanner.count_lines_and_analyze: the file it is called on
    content,           \* the text of the file: of Scanner.count_lines_and_analyze, of Parser.parse
    metrics,           \* Scanner.count_lines_and_analyze: the dict it returns
    workbook,          \* Comparer: the sheets of the static report
    static_snippets,   \* Comparer.static_snippets, as <<key, locations>> in insertion order
    dynamic_findings,  \* Comparer.correlate: its argument
    correlated,        \* Comparer.correlate: matches, new_findings, matched_keys, missing_findings
    report,            \* CorrelationTracker: the domains of the CSP allowlist, the matrix rows
    all_files,         \* Scanner.scan: the files os.walk found, with what the file system holds
    future_to_file,    \* Scanner.scan: the futures that have not completed (indices of all_files)
    results,           \* Scanner.scan: the data of the completed tasks, in completion order
    file_inventory,    \* Scanner.file_inventory
    directory_stats,   \* Scanner.directory_stats, as <<rel_dir, stats>> in insertion order
    all_ajax_details,  \* Scanner.scan: the details of all files
    files_to_scan,     \* run_static_scan: the discovered files, with what reading and parsing them gives
    processed_count,   \* run_static_scan: the files the loop has been through
    static_findings,   \* run_static_scan: its list all_findings
    report_status,     \* run_static_scan: "" until phase 3, then generated, failed or skipped
    base_url,          \* Crawler.base_url
    visited,           \* Crawler.visited
    stack,             \* Crawler.crawl: the calls in progress, the innermost last
    assets_to_scan,    \* Crawler.assets_to_scan
    external_assets,   \* Crawler.external_assets
    responses          \* the requests session.get was called for and what each gave

parse_vars == <<all_findings, findings, first_classification_done>>

depth_vars == <<filepath, content, metrics>>

compare_vars == <<workbook, static_snippets, dynamic_findings, correlated, report>>

scan_vars == <<all_files, future_to_file, results, file_inventory, directory_stats,
               all_ajax_details>>

\* the variables of the runs other than the parse, the depth analysis and the correlation
static_vars == <<files_to_scan, processed_count, static_findings, report_status>>

crawl_vars == <<base_url, visited, stack, assets_to_scan, external_assets, responses>>

later_vars == <<scan_vars, static_vars, crawl_vars>>

vars == <<pc, cur, matches, match_no, parse_vars, depth_vars, compare_vars, later_vars>>

\* the values of the variables of a run that does not use them
NoParse == all_findings = <<>> /\ findings = <<>> /\ first_classification_done = FALSE

NoDepth == filepath = "" /\ content = "" /\ metrics = <<>>

NoCompare ==
    workbook = <<>> /\ static_snippets = <<>> /\ dynamic_findings = <<>> /\ correlated = <<>>
    /\ report = <<>>

NoScan ==
    /\ all_files = <<>> /\ future_to_file = {} /\ results = <<>>
    /\ file_inventory = <<>> /\ directory_stats = <<>> /\ all_ajax_details = <<>>

NoStatic ==
    files_to_scan = <<>> /\ processed_count = 0 /\ static_findings = <<>> /\ report_status = ""

NoCrawl ==
    /\ base_url = "" /\ visited = {} /\ stack = <<>> /\ assets_to_scan = {}
    /\ external_assets = <<>> /\ responses = <<>>

\* the most regions the extraction passes of one parse return
MaxFindings == 2

\* CodeSnippet.__init__
CodeSnippet(path, sd) ==
    [file_path |-> path, start_line |-> sd.start_line, category |-> sd.category,
     end_line |-> sd.end_line, source_type |-> sd.source_type,
     code_type |-> sd.code_type, full_code |-> sd.full_code,
     ajax_detected |-> FALSE, ajax_count |-> 0,
     dynamic_code_detected |-> FALSE, dynamic_count |-> 0,
     ajax_pattern |-> "", endpoint_url |-> "", has_server_deps |-> FALSE,
     is_inline_ajax |-> FALSE, dynamic_pattern |-> "",
     capability |-> "Unknown", difficulty |-> "Unknown", ajax_details |-> <<>>,
     logic_density_score |-> 0, complexity |-> "Low", functionality |-> "Unknown",
     server_severity |-> "None"]

\* os.path.splitext(file_path)[1].lower() for the paths of the model
ExtOf(path) ==
    IF \E i \in 1..Len(path) : Ch(path, i) = "."
    THEN Lower(Sub(path, CHOOSE i \in 1..Len(path) :
                            Ch(path, i) = "." /\ \A m \in (i + 1)..Len(path) : Ch(path, m) # ".",
                   Len(path)))
    ELSE ""

\* the sequences over S of length at most n
SeqsUpTo(S, n) == UNION {[1..m -> S] : m \in 0..n}

\* all_findings after steps 1, 1.5 and 2 of Parser.parse: for a .js file
\* the regex pass on its content and the one standalone region; for a
\* document the regions of the regex pass, then those of the DOM pass
Extractions(path, text) ==
    IF ExtOf(path) = ".js"
    THEN {JsExtraction(text)} \cap SeqsUpTo(Seeds, MaxFindings)
    ELSE {r \o d : r \in SeqsUpTo(RegexSeeds, 1),
                   d \in SeqsUpTo(DomSeeds, MaxFindings)} \cap SeqsUpTo(Seeds, MaxFindings)

ParseInit ==
    /\ content \in JsContents
    /\ \E path \in FilePaths :
         /\ ExtOf(path) # ".js" => content = ""     \* a document is given by its regions
         /\ \E sds \in Extractions(path, content) :
               all_findings = [i \in DOMAIN sds |-> CodeSnippet(path, sds[i])]
    /\ filepath = ""
    /\ metrics = <<>>
    /\ pc = "dedup"
    /\ findings = <<>>
    /\ cur = 1
    /\ matches = <<>>
    /\ match_no = 0
    /\ first_classification_done = FALSE
    /\ NoCompare
    /\ NoScan
    /\ NoStatic
    /\ NoCrawl

\* key = (finding.start_line, finding.code_type, finding.full_code.strip())
Key(finding) == <<finding.start_line, finding.code_type, Strip(finding.full_code)>>

\* a variant of SeenAdd that forgets the key
SeenKeep(seen, key) == seen

\* seen.add(key)
SeenAdd(seen, key) == seen \cup {key}

\* the loop of step 3 from all_findings[i] on
RECURSIVE DedupLoop(_, _, _, _)
DedupLoop(all, i, seen, unique_findings) ==
    IF i > Len(all) THEN unique_findings
    ELSE IF Key(all[i]) \notin seen
         THEN DedupLoop(all, i + 1, SeenAdd(seen, Key(all[i])), Append(unique_findings, all[i]))
         ELSE DedupLoop(all, i + 1, seen, unique_findings)

Dedup(all) == DedupLoop(all, 1, {}, <<>>)

\* Parser.parse, step 3: Deduplicate
Deduplicate ==
    /\ pc = "dedup"
    /\ findings' = Dedup(all_findings)
    /\ pc' = IF findings' = <<>> THEN "done" ELSE "enrich"
    /\ UNCHANGED <<depth_vars, compare_vars, later_vars, all_findings, cur, matches, match_no, first_classification_done>>

INLINE_EXTENSIONS == {".cshtml", ".aspx", ".ascx", ".master", ".html", ".htm", ".php", ".jsp"}

is_inline_ajax(path) ==
    IF ExtOf(path) = ".js" THEN FALSE
    ELSE IF ExtOf(path) \in INLINE_EXTENSIONS THEN TRUE
    ELSE TRUE

\* Parser.parse, step 4: a finding that is not JS is neither AJAX- nor
\* dynamic-checked
EnrichOther ==
    /\ pc = "enrich"
    /\ findings[cur].category # "JS"
    /\ pc' = "assess"
    /\ UNCHANGED <<depth_vars, compare_vars, later_vars, all_findings, findings, cur, matches, match_no, first_classification_done>>

\* a variant of DetectStart that marks the region before it looks at the matches
DetectStartMarked ==
    /\ pc = "enrich"
    /\ findings[cur].category = "JS"
    /\ matches' = AjaxMatches(findings[cur].full_code)
    /\ findings' = [findings EXCEPT ![cur].ajax_detected = TRUE,
                                    ![cur].ajax_count = 0,
                                    ![cur].ajax_details = <<>>]
    /\ IF matches' = <<>>
       THEN /\ pc' = "dynamic"
            /\ UNCHANGED <<match_no, first_classification_done>>
       ELSE /\ first_classification_done' = FALSE
            /\ match_no' = 1
            /\ pc' = "ajax_loop"
    /\ UNCHANGED <<depth_vars, compare_vars, later_vars, all_findings, cur>>

\* detect_ajax_patterns up to its for loop
DetectStart ==
    /\ pc = "enrich"
    /\ findings[cur].category = "JS"
    /\ matches' = AjaxMatches(findings[cur].full_code)
    /\ IF matches' = <<>>
       THEN /\ pc' = "dynamic"              \* return False
            /\ UNCHANGED <<findings, match_no, first_classification_done>>
       ELSE /\ findings' = [findings EXCEPT ![cur].ajax_detected = TRUE,
                                            ![cur].ajax_count = 0,
                                            ![cur].ajax_details = <<>>]
            /\ first_classification_done' = FALSE
            /\ match_no' = 1
            /\ pc' = "ajax_loop"
    /\ UNCHANGED <<depth_vars, compare_vars, later_vars, all_findings, cur>>

\* the entry of ajax_details for one match
Detail(sn, span, match_str, v, endpoint) ==
    [Line |-> sn.start_line + Count(Sub(sn.full_code, 1, span[1] - 1), "\\n"),
     Code_Snippet |-> Prefix(match_str, 100),
     Category |-> v.category,
     Capability |-> v.capability,
     Difficulty |-> v.difficulty,
     Is_Counted |-> IF v.is_logical_request THEN "Yes" ELSE "No",
     Endpoint |-> endpoint]

\* a variant of Recorded that counts every match
RecordedAlways(sn, span, match_str, v, endpoint, done) ==
    [sn EXCEPT !.ajax_details = Append(sn.ajax_details, Detail(sn, span, match_str, v, endpoint)),
               !.ajax_count = sn.ajax_count + 1,
               !.ajax_pattern = IF done THEN sn.ajax_pattern
                                ELSE v.category \o " (" \o v.capability \o ")",
               !.capability = IF done THEN sn.capability ELSE v.capability,
               !.difficulty = IF done THEN sn.difficulty ELSE v.difficulty,
               !.endpoint_url = IF done THEN sn.endpoint_url ELSE endpoint]

\* a variant of Recorded that sets the top-level fields on every match
RecordedLatest(sn, span, match_str, v, endpoint, done) ==
    [sn EXCEPT !.ajax_details = Append(sn.ajax_details, Detail(sn, span, match_str, v, endpoint)),
               !.ajax_count = IF v.is_logical_request THEN sn.ajax_count + 1 ELSE sn.ajax_count,
               !.ajax_pattern = v.category \o " (" \o v.capability \o ")",
               !.capability = v.capability,
               !.difficulty = v.difficulty,
               !.endpoint_url = endpoint]

\* the snippet after the loop body has run for one match with verdict v
Recorded(sn, span, match_str, v, endpoint, done) ==
    [sn EXCEPT !.ajax_details = Append(sn.ajax_details, Detail(sn, span, match_str, v, endpoint)),
               !.ajax_count = IF v.is_logical_request THEN sn.ajax_count + 1 ELSE sn.ajax_count,
               !.ajax_pattern = IF done THEN sn.ajax_pattern
                                ELSE v.category \o " (" \o v.capability \o ")",
               !.capability = IF done THEN sn.capability ELSE v.capability,
               !.difficulty = IF done THEN sn.difficulty ELSE v.difficulty,
               !.endpoint_url = IF done THEN sn.endpoint_url ELSE endpoint]

(***************************************************************************)
(* The classification rules of detect_ajax_patterns as an ordered list:    *)
(* a rule fires on a lower-cased matched text that holds one of its `any`  *)
(* tokens, all of its `all` tokens and none of its `none` tokens.  A       *)
(* branch with an inner if/else is listed once per inner outcome, the      *)
(* inner test added to `all`, in the order the code decides them.          *)
(***************************************************************************)
Rule(any, all, none, cat, cap, diff, req) ==
    [any |-> any, all |-> all, none |-> none, v |-> V(cat, cap, diff, req)]

Catalogue == <<
    Rule({"sendbeacon"}, {}, {}, "Request", "Telemetry", "Easy", TRUE),
    Rule({"getscript", ".js"}, {}, {}, "Request", "Script Loading (Dynamic)", "Hard", TRUE),
    Rule({".css"}, {}, {}, "Request", "CSS Loading", "Medium", TRUE),
    Rule({".html"}, {}, {}, "Request", "UI Injection", "Medium", TRUE),
    Rule({"load"}, {}, {"payload"}, "Request", "UI Injection (Likely)", "Medium", TRUE),
    Rule({"ajaxsetup", "ajaxprefilter", "ajaxtransport"}, {}, {},
         "Config", "AJAX Configuration", "Easy", FALSE),
    Rule({"ajaxstart", "ajaxsend", "ajaxsuccess", "ajaxerror", "ajaxcomplete", "ajaxstop",
          "onreadystatechange"}, {}, {},
         "Event", "Global Event Handler", "Hard (Refactoring Risk)", FALSE),
    Rule({"serialize", "param", "parsejson"}, {}, {}, "Utility", "Form/Data Utility", "Easy", FALSE),
    Rule({"sys.net.webrequest"}, {}, {}, "Request", "Data Exchange (Legacy)", "Hard", TRUE),
    Rule({"pagemethods"}, {}, {}, "Request", "RPC (Code-Behind)", "Hard", TRUE),
    Rule({"__dopostback"}, {}, {}, "Request", "Partial Postback", "Medium", TRUE),
    Rule({"data-ajax"}, {}, {}, "Request", "Declarative AJAX", "Easy", TRUE),
    Rule({"sys.webforms"}, {}, {}, "Config", "UpdatePanel Config", "Hard", FALSE),
    Rule({"setrequestheader", "getresponseheader", "getallresponseheaders"}, {}, {},
         "Config", "Request Header Manipulation", "Medium", FALSE),
    Rule({"abort"}, {}, {}, "Utility", "Request Control", "Easy", FALSE),
    Rule({"json.parse", "json.stringify"}, {}, {}, "Utility", "JSON Utility", "Easy", FALSE),
    Rule({"new headers", "new request"}, {}, {}, "Construct", "Fetch API Construct", "Easy", FALSE),
    Rule({"updatepanel"}, {}, {}, "Request", "Partial Rendering (UpdatePanel)", "Hard", TRUE),
    Rule({"scriptmanager", "clientscript"}, {}, {},
         "Server", "Server-Side Script Injection", "Hard", FALSE),
    Rule({"webmethod", "scriptmethod", "webservice"}, {}, {},
         "Server", "AJAX Endpoint (Server)", "Medium", FALSE),
    Rule({"apicontroller", "[route"}, {}, {}, "Server", "API Endpoint (Server)", "Medium", FALSE),
    Rule({"operationcontract"}, {}, {}, "Server", "WCF Endpoint (Server)", "Hard", FALSE),
    Rule({"hubname", "clients.all", "clients.caller"}, {}, {},
         "Server", "SignalR Hub (Server)", "Hard", FALSE),
    Rule({"hubconnection"}, {}, {}, "Real-time", "SignalR Client", "Easy", TRUE),
    Rule({"@ajax"}, {}, {}, "Request", "Razor AJAX Helper", "Easy", TRUE),
    Rule({"@url"}, {}, {}, "Construct", "Dynamic URL Generation", "Easy", FALSE),
    Rule({"<system.web.extensions>", "scriptresourcehandler"}, {}, {},
         "Config", "AJAX Configuration", "Medium", FALSE),
    Rule({"radajax", "telerik"}, {}, {},
         "Third-Party", "Telerik AJAX Control", "Hard (Vendor Lock-in)", TRUE),
    Rule({"aspxcallback"}, {}, {},
         "Third-Party", "DevExpress AJAX Control", "Hard (Vendor Lock-in)", TRUE),
    Rule({"response.write"}, {}, {},
         "Server", "Direct Script Injection", "High (Security Risk)", FALSE),
    Rule({"channelfactory"}, {}, {}, "Server", "WCF Client Proxy", "Hard", TRUE),
    Rule({"httpclient"}, {}, {}, "Server/Blazor", ".NET HttpClient", "Easy", TRUE),
    Rule({"ijsruntime"}, {}, {}, "Blazor", "Blazor JS Interop", "Medium", FALSE),
    Rule({"[http"}, {}, {}, "Server", "API Endpoint Verb", "Easy", FALSE),
    Rule({"backgroundfetch"}, {}, {}, "Service Worker", "Background Sync/Fetch", "Medium", TRUE),
    Rule({"iframe"}, {}, {}, "Legacy Pattern", "Hidden Iframe (Pseudo-AJAX)", "Hard", TRUE),
    Rule({"formdata"}, {}, {}, "Construct", "Form Data Construction", "Easy", FALSE),
    Rule({"new image", ".src"}, {}, {}, "Request", "Pixel Tracking (Image)", "Easy", TRUE),
    Rule({"usequery", "usemutation"}, {}, {},
         "Modern Framework", "Modern Data Fetching (React Query)", "Easy", TRUE),
    Rule({"this.http"}, {}, {}, "Modern Framework", "Angular HttpClient", "Easy", TRUE),
    Rule({"ajax.request"}, {}, {}, "Legacy Lib", "Prototype.js AJAX", "Hard", TRUE),
    Rule({"new request"}, {"mootools"}, {}, "Legacy Lib", "MooTools/Fetch Request", "Hard", TRUE),
    Rule({"new request"}, {}, {}, "Construct", "MooTools/Fetch Request", "Hard", TRUE),
    Rule({"jsonp"}, {}, {}, "Legacy Pattern", "JSONP (Legacy Cross-Domain)",
         "Hard (Security Risk)", TRUE),
    Rule({"new xmlhttprequest", ".open"}, {"xmlhttprequest"}, {},
         "Construct", "XHR Construct", "Easy", FALSE),
    Rule({"new xmlhttprequest", ".open"}, {}, {}, "Construct", "XHR Construct", "Easy", TRUE)
>>

\* the verdict of a match no rule fires on
DefaultVerdict == V("Request", "Data Exchange", "Easy", TRUE)

Fires(rule, lm) ==
    /\ \E tok \in rule.any : Contains(lm, tok)
    /\ \A tok \in rule.all : Contains(lm, tok)
    /\ \A tok \in rule.none : ~Contains(lm, tok)

\* the positions in the catalogue of the rules that fire on lm
Firing(lm) == {r \in DOMAIN Catalogue : Fires(Catalogue[r], lm)}

MaxOf(S) == CHOOSE x \in S : \A y \in S : y <= x

FirstRuleOf(firing) == IF firing = {} THEN DefaultVerdict ELSE Catalogue[MinOf(firing)].v

LastRuleOf(firing) == IF firing = {} THEN DefaultVerdict ELSE Catalogue[MaxOf(firing)].v

\* a variant of ProcessMatch in which the last rule that fires decides
ProcessMatchLastRule(sn, span, lower_match, done) ==
    Recorded(sn, span, Sub(sn.full_code, span[1], span[2] - 1),
             LastRuleOf(Firing(lower_match)), Endpoint(sn.full_code, lower_match), done)

\* a variant of ProcessMatch that classifies the text of the whole region
ProcessMatchInContext(sn, span, lower_match, done) ==
    Recorded(sn, span, Sub(sn.full_code, span[1], span[2] - 1),
             ClassifyAjax(Lower(sn.full_code)), Endpoint(sn.full_code, lower_match), done)

\* the loop body: classification, endpoint, detail, tally, first-match fields
ProcessMatch(sn, span, lower_match, done) ==
    Recorded(sn, span, Sub(sn.full_code, span[1], span[2] - 1),
             ClassifyAjax(lower_match), Endpoint(sn.full_code, lower_match), done)

\* one iteration of the for loop of detect_ajax_patterns
DetectMatch ==
    /\ pc = "ajax_loop"
    /\ findings' = [findings EXCEPT ![cur] =
            ProcessMatch(findings[cur], matches[match_no],
                         Lower(Sub(findings[cur].full_code, matches[match_no][1],
                                   matches[match_no][2] - 1)),
                         first_classification_done)]
    /\ first_classification_done' = TRUE
    /\ IF match_no = Len(matches)
       THEN pc' = "ajax_post" /\ match_no' = match_no
       ELSE pc' = pc /\ match_no' = match_no + 1
    /\ UNCHANGED <<depth_vars, compare_vars, later_vars, all_findings, cur, matches>>

\* detect_ajax_patterns after the loop
DetectFinish ==
    /\ pc = "ajax_post"
    /\ findings' = [findings EXCEPT
            ![cur].is_inline_ajax = is_inline_ajax(findings[cur].file_path),
            ![cur].has_server_deps = ServerDeps(findings[cur].full_code)]
    /\ pc' = "dynamic"                       \* return True
    /\ UNCHANGED <<depth_vars, compare_vars, later_vars, all_findings, cur, matches, match_no, first_classification_done>>

\* Parser._detect_dynamic: the first pattern with a match, by dict order
FirstDynamic(counts) ==
    dynamic_patterns[CHOOSE i \in DOMAIN counts :
                        counts[i] > 0 /\ \A m \in 1..(i - 1) : counts[m] = 0].name

RECURSIVE SumTo(_, _)
SumTo(counts, n) == IF n = 0 THEN 0 ELSE counts[n] + SumTo(counts, n - 1)

\* the snippet after _detect_dynamic, given the number of matches of each pattern
Flagged(sn, counts, total_dynamic) ==
    IF total_dynamic > 0
    THEN [sn EXCEPT !.dynamic_code_detected = TRUE,
                    !.dynamic_pattern = FirstDynamic(counts),
                    !.dynamic_count = total_dynamic]
    ELSE sn

detect_dynamic(sn, counts) == Flagged(sn, counts, SumTo(counts, Len(counts)))

\* Parser._detect_dynamic
DetectDynamic ==
    /\ pc = "dynamic"
    /\ findings' = [findings EXCEPT ![cur] =
            detect_dynamic(findings[cur], DynamicCounts(findings[cur].full_code))]
    /\ pc' = "assess"
    /\ UNCHANGED <<depth_vars, compare_vars, later_vars, all_findings, cur, matches, match_no, first_classification_done>>

\* Parser._calculate_complexity: the Logic Density Score
BaseScore(sn, p4) == 2 * p4.logic + (IF sn.ajax_detected THEN 1 ELSE 0) + p4.listeners

\* a variant of LogicDensity that takes the two points from every region with a selector
LogicDensityAlways(score, selectors) == IF selectors > 0 THEN score - 2 ELSE score

LogicDensity(score, selectors) == IF selectors > 0 /\ score < 2 THEN score - 2 ELSE score

ComplexityOf(score) == IF score >= 5 THEN "High" ELSE IF score >= 2 THEN "Medium" ELSE "Low"

\* Parser._assess_severity
SeverityOf(p4) ==
    IF p4.high THEN "High" ELSE IF p4.medium THEN "Medium" ELSE IF p4.low THEN "Low" ELSE "None"

\* Parser._infer_functionality, on code = full_code.lower()
FunctionalityOf(sn, code) ==
    IF sn.ajax_detected THEN "Data/Network Operation"
    ELSE IF HasAny(code, {"validate", "regex", "return false"}) THEN "Form Validation"
    ELSE IF HasAny(code, {"click", "hover", "on("}) THEN "UI Interaction"
    ELSE IF HasAny(code, {"chart", "graph"}) THEN "Data Visualization"
    ELSE IF HasAny(code, {"style", "class", "show()", "hide()"}) THEN "Visual Effects"
    ELSE "General Logic"

Assessed(sn, score, p4) ==
    [sn EXCEPT !.logic_density_score = score,
               !.complexity = ComplexityOf(score),
               !.server_severity = SeverityOf(p4),
               !.functionality = FunctionalityOf(sn, Lower(sn.full_code))]

\* Parser.parse, Phase 4 of the enrichment of one finding, and the move of
\* the loop to the next finding
Assess ==
    /\ pc = "assess"
    /\ findings' = [findings EXCEPT ![cur] =
            Assessed(findings[cur],
                     LogicDensity(BaseScore(findings[cur], Phase4(findings[cur].full_code)),
                                  Phase4(findings[cur].full_code).selectors),
                     Phase4(findings[cur].full_code))]
    /\ cur' = cur + 1
    /\ pc' = IF cur = Len(findings) THEN "done" ELSE "enrich"
    /\ matches' = <<>>
    /\ match_no' = 0
    /\ first_classification_done' = FALSE
    /\ UNCHANGED <<depth_vars, compare_vars, later_vars, all_findings>>

(***************************************************************************)
(* repo_depth_analyser: Scanner.count_lines_and_analyze                    *)
(***************************************************************************)
\* the metrics dict as count_lines_and_analyze creates it
NewMetrics ==
    [lines |-> 0,
     inline_css |-> 0, internal_style_blocks |-> 0, external_stylesheet_links |-> 0,
     inline_js |-> 0, internal_script_blocks |-> 0, external_script_tags |-> 0,
     ajax_calls |-> 0, has_ajax_calls |-> "No", dynamic_js |-> 0, dynamic_css |-> 0,
     ajax_details |-> <<>>]

DepthInit ==
    /\ filepath \in DepthPaths
    /\ content \in DepthContents
    /\ metrics = NewMetrics
    /\ pc = "depth_read"
    /\ cur = 1
    /\ matches = <<>>
    /\ match_no = 0
    /\ NoParse
    /\ NoScan
    /\ NoStatic
    /\ NoCrawl
    /\ NoCompare

\* the files larger than this many bytes are only line-counted
SIZE_LIMIT == 10 * 1024 * 1024

\* sum(1 for _ in f): the lines a file object iterates over
IteratedLines(text) ==
    Count(text, "\n") + (IF text # "" /\ Ch(text, Len(text)) # "\n" THEN 1 ELSE 0)

\* the six findall counts of a web file
Counted(m, counts) ==
    [m EXCEPT !.inline_css = counts.inline_css,
              !.internal_style_blocks = counts.internal_style_blocks,
              !.external_stylesheet_links = counts.external_stylesheet_links,
              !.inline_js = counts.inline_js,
              !.internal_script_blocks = counts.internal_script_blocks,
              !.external_script_tags = counts.external_script_tags]

\* count_lines_and_analyze up to its for loop over the matches of ajax_call
DepthRead ==
    /\ pc = "depth_read"
    /\ IF Len(content) > SIZE_LIMIT
       THEN /\ metrics' = [metrics EXCEPT !.lines = IteratedLines(content)]
            /\ pc' = "depth_done"
            /\ UNCHANGED <<matches, match_no>>
       ELSE IF ExtOf(filepath) \notin web_exts
       THEN /\ metrics' = [metrics EXCEPT !.lines = Count(content, "\n") + 1]
            /\ pc' = "depth_done"
            /\ UNCHANGED <<matches, match_no>>
       ELSE /\ metrics' = Counted([metrics EXCEPT !.lines = Count(content, "\n") + 1],
                                  DepthCounts(content))
            /\ matches' = DepthMatches(content)
            /\ match_no' = 1
            /\ pc' = IF matches' = <<>> THEN "depth_post" ELSE "depth_loop"
    /\ UNCHANGED <<cur, parse_vars, filepath, content, compare_vars, later_vars>>

\* the entry of metrics['ajax_details'] for one match
DepthDetail(text, span, match_str, v) ==
    [Line |-> Count(Sub(text, 1, span[1] - 1), "\n") + 1,
     Code_Snippet |-> Prefix(match_str, 100),
     Category |-> v.category,
     Capability |-> v.capability,
     Difficulty |-> v.difficulty,
     Is_Counted |-> IF v.is_logical_request THEN "Yes" ELSE "No"]

\* metrics after the loop body has run for one match with verdict v
DepthRecorded(m, text, span, match_str, v) ==
    [m EXCEPT !.ajax_calls = IF v.is_logical_request THEN m.ajax_calls + 1 ELSE m.ajax_calls,
              !.ajax_details = Append(m.ajax_details, DepthDetail(text, span, match_str, v))]

DepthProcessMatch(m, text, span, match_str) ==
    DepthRecorded(m, text, span, match_str, ClassifyDepth(Lower(match_str)))

\* one iteration of the for loop of count_lines_and_analyze
DepthMatch ==
    /\ pc = "depth_loop"
    /\ metrics' = DepthProcessMatch(metrics, content, matches[match_no],
                                    Sub(content, matches[match_no][1], matches[match_no][2] - 1))
    /\ IF match_no = Len(matches)
       THEN pc' = "depth_post" /\ match_no' = match_no
       ELSE pc' = pc /\ match_no' = match_no + 1
    /\ UNCHANGED <<cur, matches, parse_vars, filepath, content, compare_vars, later_vars>>

\* metrics after the statements that follow the loop
DepthFinished(m, counts) ==
    [m EXCEPT !.has_ajax_calls = IF m.ajax_calls > 0 THEN "Yes" ELSE "No",
              !.dynamic_js = counts.dynamic_js,
              !.dynamic_css = counts.dynamic_css + counts.css_in_js]

\* count_lines_and_analyze after the loop
DepthFinish ==
    /\ pc = "depth_post"
    /\ metrics' = DepthFinished(metrics, DepthCounts(content))
    /\ pc' = "depth_done"
    /\ UNCHANGED <<cur, matches, match_no, parse_vars, filepath, content, compare_vars, later_vars>>

(***************************************************************************)
(* RepoScan-Analyser crawler: comparer.normalize_snippet and Comparer      *)
(***************************************************************************)
\* re.sub(r'\s+', ' ', code) on code[lo..hi]: the first character of a
\* whitespace run becomes one space and the rest of the run disappears
RECURSIVE SubWhitespace(_, _, _)
SubWhitespace(code, lo, hi) ==
    IF lo > hi THEN ""
    ELSE IF lo = hi
         THEN (IF Ch(code, lo) \notin Whitespace THEN Ch(code, lo)
               ELSE IF lo > 1 /\ Ch(code, lo - 1) \in Whitespace THEN "" ELSE " ")
    ELSE SubWhitespace(code, lo, (lo + hi) \div 2)
         \o SubWhitespace(code, (lo + hi) \div 2 + 1, hi)

\* a variant of normalize_snippet that trims and leaves inner whitespace as it is
TrimOnly(code) == Strip(code)

normalize_snippet(code) == Strip(SubWhitespace(code, 1, Len(code)))

\* a sheet of the static report: its title, its header row and its data rows
Sheet(name, headers, rows) == [name |-> name, headers |-> headers, rows |-> rows]

\* the sheets _load_static_report never reads
SKIPPED_SHEETS == {"Summary", "Legend", "Output Manifest", "AJAX Code"}

\* the sheets of the model; an empty cell is ""
SheetSeeds == {
    Sheet("Inline JS", <<"File Path", "Line", "Code Snippet">>,
          << <<"a.cshtml", "3", "fetch('/api/users')">>,
             <<"b.cshtml", "7", "Resource:  /a.js">> >>),
    Sheet("JS Blocks", <<"Code Snippet", "File Path">>,
          << <<" Resource: /a.js\n", "c.html">>,
             <<"", "c.html">>,
             <<"x.send( )", "d.html">> >>),
    Sheet("Summary", <<"File Path", "Code Snippet">>,
          << <<"e.html", "Resource: /b.css">> >>),
    Sheet("External", <<"File Path", "Resource Path">>,
          << <<"f.html", "Resource: /b.css">> >>),
    Sheet("Inline CSS", <<"File Path", "Code Snippet">>,
          << <<"g.html", "fetch('/api/users')">> >>)
}

\* main.DynamicFindingWrapper
DynamicFindingWrapper(url, type_) ==
    [file_path |-> url, snippet |-> "Resource: " \o url, ajax_pattern |-> type_,
     endpoint_url |-> url]

\* the objects of the model correlate is called with
DynamicSeeds == {
    DynamicFindingWrapper("/a.js", "script"),
    DynamicFindingWrapper("/b.css", "style"),
    [file_path |-> "http://t/p", snippet |-> "fetch('/api/users')\n",
     ajax_pattern |-> "Request (Data Exchange)", endpoint_url |-> "/api/users"],
    [file_path |-> "http://t/q", snippet |-> "fetch( '/api/users' )",
     ajax_pattern |-> "Request (Data Exchange)", endpoint_url |-> "/api/users"],
    [file_path |-> "http://t/r", snippet |-> "X.send()",
     ajax_pattern |-> "Request (Data Exchange)", endpoint_url |-> "Unknown/Dynamic"],
    [file_path |-> "http://t/s", snippet |-> "$.get('https://api.x.com/v1')",
     ajax_pattern |-> "Request (Data Exchange)", endpoint_url |-> "https://api.x.com/v1"],
    [file_path |-> "http://t/u", snippet |-> "$.getJSON('files/data.json')",
     ajax_pattern |-> "Request (Data Exchange)", endpoint_url |-> "files/data.json"]
}

\* the most sheets of a workbook and the most dynamic findings of a crawl
MaxSheets == 2

MaxDynamic == 2

\* the workbooks of the model: sheets with distinct titles
Workbooks ==
    {w \in SeqsUpTo(SheetSeeds, MaxSheets) :
        w # <<>> /\ \A i, j \in DOMAIN w : w[i].name = w[j].name => i = j}

CompareInit ==
    /\ workbook \in Workbooks
    /\ dynamic_findings \in SeqsUpTo(DynamicSeeds, MaxDynamic)
    /\ static_snippets = <<>>
    /\ correlated = [matches |-> <<>>, new_findings |-> <<>>, matched_keys |-> {},
                     missing_findings |-> <<>>]
    /\ report = <<>>
    /\ pc = "load"
    /\ cur = 1
    /\ matches = <<>>
    /\ match_no = 0
    /\ NoParse
    /\ NoScan
    /\ NoStatic
    /\ NoCrawl
    /\ NoDepth

\* headers.index(name) + 1
HeaderIndex(headers, name) == MinOf({i \in DOMAIN headers : headers[i] = name})

HasHeader(headers, name) == \E i \in DOMAIN headers : headers[i] = name

\* the position of key in the dict, 0 when it is not in it
KeyIndex(ss, key) ==
    IF \E i \in DOMAIN ss : ss[i][1] = key
    THEN CHOOSE i \in DOMAIN ss : ss[i][1] = key
    ELSE 0

\* self.static_snippets[norm].append({'file': filepath, 'row': row}),
\* after the key has been created where it was missing
AddStatic(ss, norm, at, loc) ==
    IF at = 0 THEN Append(ss, <<norm, <<loc>>>>)
    ELSE [ss EXCEPT ![at] = <<norm, Append(ss[at][2], loc)>>]

\* the body of the row loop, for the cells of the two columns
LoadCell(ss, snippet, file, row) ==
    IF snippet # ""
    THEN AddStatic(ss, normalize_snippet(snippet), KeyIndex(ss, normalize_snippet(snippet)),
                   [file |-> file, row |-> row])
    ELSE ss

\* the row loop of one sheet, from row r (the first data row is row 2)
RECURSIVE LoadRows(_, _, _, _, _)
LoadRows(ss, rows, r, snippet_col_idx, file_col_idx) ==
    IF r > Len(rows) + 1 THEN ss
    ELSE LoadRows(LoadCell(ss, rows[r - 1][snippet_col_idx], rows[r - 1][file_col_idx], r),
                  rows, r + 1, snippet_col_idx, file_col_idx)

\* the body of the sheet loop of _load_static_report
LoadedSheet(ss, ws) ==
    IF ws.name \in SKIPPED_SHEETS THEN ss
    ELSE IF ~HasHeader(ws.headers, "Code Snippet") \/ ~HasHeader(ws.headers, "File Path") THEN ss
    ELSE LoadRows(ss, ws.rows, 2, HeaderIndex(ws.headers, "Code Snippet"),
                  HeaderIndex(ws.headers, "File Path"))

\* Comparer._load_static_report: one sheet of the workbook
LoadSheet ==
    /\ pc = "load"
    /\ static_snippets' = LoadedSheet(static_snippets, workbook[cur])
    /\ IF cur = Len(workbook)
       THEN pc' = "correlate" /\ cur' = 1
       ELSE pc' = pc /\ cur' = cur + 1
    /\ UNCHANGED <<matches, match_no, parse_vars, depth_vars, later_vars, workbook, dynamic_findings,
                   correlated, report>>

\* the record of a finding whose normalized snippet is a static key
MatchRecord(finding, matched_static) ==
    [status |-> "VERIFIED", dynamic_url |-> finding.file_path,
     static_locations |-> matched_static, snippet |-> finding.snippet,
     ajax_type |-> finding.ajax_pattern, endpoint_url |-> finding.endpoint_url]

\* the record of a finding found on the web but not in the static report
NewRecord(finding) ==
    [status |-> "NEW_WEB_ONLY", dynamic_url |-> finding.file_path,
     snippet |-> finding.snippet, ajax_type |-> finding.ajax_pattern,
     endpoint_url |-> finding.endpoint_url]

\* a variant of Correlated that does not remember the keys it has matched
CorrelatedNoKeys(res, ss, finding, norm, at) ==
    IF at # 0
    THEN [res EXCEPT !.matches = Append(res.matches, MatchRecord(finding, ss[at][2]))]
    ELSE [res EXCEPT !.new_findings = Append(res.new_findings, NewRecord(finding))]

\* the body of the loop over dynamic_findings; at is the position of norm
\* in static_snippets, 0 when norm is not a key
Correlated(res, ss, finding, norm, at) ==
    IF at # 0
    THEN [res EXCEPT !.matches = Append(res.matches, MatchRecord(finding, ss[at][2])),
                     !.matched_keys = res.matched_keys \cup {norm}]
    ELSE [res EXCEPT !.new_findings = Append(res.new_findings, NewRecord(finding))]

\* Comparer.correlate: one iteration of the loop over dynamic_findings
CorrelateFinding ==
    /\ pc = "correlate"
    /\ cur <= Len(dynamic_findings)
    /\ correlated' = Correlated(correlated, static_snippets, dynamic_findings[cur],
                                normalize_snippet(dynamic_findings[cur].snippet),
                                KeyIndex(static_snippets,
                                         normalize_snippet(dynamic_findings[cur].snippet)))
    /\ cur' = cur + 1
    /\ UNCHANGED <<pc, matches, match_no, parse_vars, depth_vars, later_vars, workbook, static_snippets,
                   dynamic_findings, report>>

\* the record of a static key that was never seen on the web
MissingRecord(key, locations) ==
    [status |-> "MISSING_IN_CRAWL", static_locations |-> locations,
     snippet |-> Prefix(key, 100) \o "..."]

\* the loop over self.static_snippets.items(), from item i
RECURSIVE MissingFrom(_, _, _)
MissingFrom(ss, matched_keys, i) ==
    IF i > Len(ss) THEN <<>>
    ELSE (IF ss[i][1] \notin matched_keys THEN <<MissingRecord(ss[i][1], ss[i][2])>> ELSE <<>>)
         \o MissingFrom(ss, matched_keys, i + 1)

\* Comparer.correlate: the missing findings and the return
CorrelateMissing ==
    /\ pc = "correlate"
    /\ cur > Len(dynamic_findings)
    /\ correlated' = [correlated EXCEPT
            !.missing_findings = MissingFrom(static_snippets, correlated.matched_keys, 1)]
    /\ pc' = "correlated"
    /\ UNCHANGED <<cur, matches, match_no, parse_vars, depth_vars, later_vars, workbook, static_snippets,
                   dynamic_findings, report>>


(***************************************************************************)
(* The correlation tracker (crawler/tracker.py)                            *)
(***************************************************************************)
SchemeChars == Chars(UpperLetters) \cup Chars(LowerLetters) \cup Chars(Digits) \cup {"+", "-", "."}

\* the first position at or after i of a character of stops in s; Len(s) + 1 when none
FirstOfChars(s, stops, i) ==
    MinOf({q \in i..Len(s) : Ch(s, q) \in stops} \cup {Len(s) + 1})

\* urlparse: the length of "scheme:" at the start of url, 0 when url has no scheme
SchemeLen(url) ==
    IF /\ FirstOfChars(url, {":"}, 1) \in 2..Len(url)
       /\ Ch(url, 1) \in Chars(UpperLetters) \cup Chars(LowerLetters)
       /\ \A q \in 1..(FirstOfChars(url, {":"}, 1) - 1) : Ch(url, q) \in SchemeChars
    THEN FirstOfChars(url, {":"}, 1)
    ELSE 0

\* urlparse(url).netloc, for a url without brackets, control characters or
\* leading blanks: what stands between the "//" that follows the scheme and
\* the next "/", "?" or "#"
netloc(url, after) ==
    IF Sub(url, after + 1, after + 2) = "//"
    THEN Sub(url, after + 3, FirstOfChars(url, {"/", "?", "#"}, after + 3) - 1)
    ELSE ""

\* CorrelationTracker._get_csp_domain
get_csp_domain(endpoint) ==
    IF endpoint = "" \/ endpoint \in {"Dynamic/Variable", "Server-Generated", "Unknown/Dynamic"}
    THEN "Manual Review Required"
    ELSE IF Ch(endpoint, 1) = "/" THEN "Self"
    ELSE IF netloc(endpoint, SchemeLen(endpoint)) # "" THEN netloc(endpoint, SchemeLen(endpoint))
    ELSE IF Contains(endpoint, ".") /\ Contains(endpoint, "/")
         THEN Sub(endpoint, 1, FirstOfChars(endpoint, {"/"}, 1) - 1)   \* endpoint.split('/')[0]
    ELSE "Self (Assumed)"

\* the body of the loop over all_items: at is the position of domain in
\* domains, 0 when it has no entry yet
CspCounted(domains, item, domain, at) ==
    IF domain \in {"Manual Review Required", "Self", "Self (Assumed)"} THEN domains
    ELSE IF at = 0
         THEN Append(domains, <<domain, [count |-> 1,
                        status |-> {IF item.status = "VERIFIED" THEN "Verified" ELSE "New"}]>>)
    ELSE [domains EXCEPT ![at] = <<domain, [count |-> domains[at][2].count + 1,
                        status |-> domains[at][2].status
                                   \cup {IF item.status = "VERIFIED" THEN "Verified" ELSE "New"}]>>]

\* the loop of _create_csp_allowlist over all_items, from item i
RECURSIVE CspDomains(_, _, _)
CspDomains(domains, all_items, i) ==
    IF i > Len(all_items) THEN domains
    ELSE CspDomains(CspCounted(domains, all_items[i], get_csp_domain(all_items[i].endpoint_url),
                               KeyIndex(domains, get_csp_domain(all_items[i].endpoint_url))),
                    all_items, i + 1)

\* the rows of the verified and new findings in _create_correlation_sheet
MatrixRow(item) ==
    [status |-> item.status, endpoint |-> item.endpoint_url,
     csp |-> get_csp_domain(item.endpoint_url)]

\* CorrelationTracker.generate_report on the result of correlate
GenerateReport ==
    /\ pc = "correlated"
    /\ report' = [domains |-> CspDomains(<<>>, correlated.matches \o correlated.new_findings, 1),
                  matrix |-> [i \in 1..Len(correlated.matches \o correlated.new_findings) |->
                                MatrixRow((correlated.matches \o correlated.new_findings)[i])]]
    /\ pc' = "reported"
    /\ UNCHANGED <<cur, matches, match_no, parse_vars, depth_vars, later_vars, workbook, static_snippets,
                   dynamic_findings, correlated>>

(***************************************************************************)
(* repo_depth_analyser: Scanner.scan and its worker function               *)
(***************************************************************************)
\* a file of the walked tree: the directory relative to target_dir, the
\* name, whether os.path.getsize answers ("ok") or raises, what open/read
\* does ("ok" or the exception it raises), and the text of the file
File(root, file, stat, read, text) ==
    [root |-> root, file |-> file, stat |-> stat, read |-> read, text |-> text]

FileSeeds == {
    File(".", "site.js", "ok", "ok", "var x = new XMLHttpRequest();\nx.open('GET', u);\nx.send();"),
    File("views", "View.cshtml", "ok", "ok", "<script>fetch('/api/users')</script>"),
    File("views", "locked.html", "ok", "PermissionError", "<script>fetch('/api/users')</script>"),
    File(".", "gone.js", "FileNotFoundError", "ok", "no calls here"),
    File("views/shared", "Makefile", "ok", "OSError", "no calls here")
}

\* the most files of a walked tree
MaxFiles == 3

\* the for loop of count_lines_and_analyze over the matches, from match i
RECURSIVE DepthLoop(_, _, _, _)
DepthLoop(m, text, spans, i) ==
    IF i > Len(spans) THEN m
    ELSE DepthLoop(DepthProcessMatch(m, text, spans[i], Sub(text, spans[i][1], spans[i][2] - 1)),
                   text, spans, i + 1)

\* Scanner.count_lines_and_analyze: the metrics it returns; an exception of
\* getsize, open or read leaves the try block before metrics is assigned to
count_lines_and_analyze(path, read, text) ==
    IF read # "ok" THEN NewMetrics
    ELSE IF Len(text) > SIZE_LIMIT THEN [NewMetrics EXCEPT !.lines = IteratedLines(text)]
    ELSE IF ExtOf(path) \notin web_exts
         THEN [NewMetrics EXCEPT !.lines = Count(text, "\n") + 1]
    ELSE DepthFinished(DepthLoop(Counted([NewMetrics EXCEPT !.lines = Count(text, "\n") + 1],
                                         DepthCounts(text)),
                                 text, DepthMatches(text), 1),
                       DepthCounts(text))

\* round(size / 1024, 2), in hundredths of a KB
SizeKb(size) ==
    IF (size * 100) % 1024 > 512 \/ ((size * 100) % 1024 = 512 /\ ((size * 100) \div 1024) % 2 = 1)
    THEN (size * 100) \div 1024 + 1
    ELSE (size * 100) \div 1024

\* Scanner.process_file: the data of a task whose getsize does not raise
process_file(f) ==
         [root |-> f.root, file |-> f.file,
          ext |-> IF ExtOf(f.file) = "" THEN "(No Extension)" ELSE ExtOf(f.file),
          size |-> Len(f.text),
          metrics |-> count_lines_and_analyze(f.file, f.read, f.text),
          file_path |-> f.root \o "/" \o f.file]

ProcessedTable == {<<f, process_file(f)>> : f \in FileSeeds}

Processed(f) == (CHOOSE t \in ProcessedTable : t[1] = f)[2]

ScanInit ==
    /\ all_files \in {w \in SeqsUpTo(FileSeeds, MaxFiles) : \A i, j \in DOMAIN w : w[i] = w[j] => i = j}
    /\ future_to_file = DOMAIN all_files
    /\ results = <<>>
    /\ file_inventory = <<>>
    /\ directory_stats = <<>>
    /\ all_ajax_details = <<>>
    /\ pc = "scan"
    /\ cur = 1
    /\ matches = <<>>
    /\ match_no = 0
    /\ NoParse
    /\ NoDepth
    /\ NoCompare
    /\ NoStatic
    /\ NoCrawl

\* the body of the loop over as_completed, for the future that completes next
TaskCompleted ==
    /\ pc = "scan"
    /\ \E future \in future_to_file :
          /\ results' = IF all_files[future].stat # "ok"   \* process_file raised
                        THEN results                     \* except Exception
                        ELSE Append(results, Processed(all_files[future]))
          /\ future_to_file' = future_to_file \ {future}
    /\ UNCHANGED <<pc, cur, matches, match_no, parse_vars, depth_vars, compare_vars, static_vars, crawl_vars,
                   all_files, file_inventory, directory_stats, all_ajax_details>>

RelDir(root) == IF root = "." THEN "(Root)" ELSE root

\* the entry of file_inventory for one item of results
InventoryRow(item) ==
    [Directory |-> RelDir(item.root), Filename |-> item.file, Extension |-> item.ext,
     Size_KB |-> SizeKb(item.size), Line_Count |-> item.metrics.lines,
     Inline_CSS_Count |-> item.metrics.inline_css,
     Internal_Style_Blocks_Count |-> item.metrics.internal_style_blocks,
     External_Stylesheet_Links_Count |-> item.metrics.external_stylesheet_links,
     Inline_JS_Count |-> item.metrics.inline_js,
     Internal_Script_Blocks_Count |-> item.metrics.internal_script_blocks,
     External_Script_Tags_Count |-> item.metrics.external_script_tags,
     AJAX_Calls_Count |-> item.metrics.ajax_calls,
     Has_Ajax_Calls |-> item.metrics.has_ajax_calls,
     Dynamic_JS_Gen_Count |-> item.metrics.dynamic_js,
     Dynamic_CSS_Gen_Count |-> item.metrics.dynamic_css,
     Full_Path |-> item.file_path]

\* d[key] += 1 on a defaultdict(int) kept as <<key, value>> pairs
Incremented(d, key, at) ==
    IF at = 0 THEN Append(d, <<key, 1>>) ELSE [d EXCEPT ![at] = <<key, d[at][2] + 1>>]

\* a variant of DirStats that assigns the lines of the item, as it does the depth
DirStatsAssigned(stats, item, depth) ==
    [count |-> stats.count + 1, lines |-> item.metrics.lines, depth |-> depth,
     extensions |-> Incremented(stats.extensions, item.ext, KeyIndex(stats.extensions, item.ext))]

\* the stats of a directory after one more file of it
DirStats(stats, item, depth) ==
    [count |-> stats.count + 1, lines |-> stats.lines + item.metrics.lines, depth |-> depth,
     extensions |-> Incremented(stats.extensions, item.ext, KeyIndex(stats.extensions, item.ext))]

\* directory_stats after the item: at is the position of its directory, 0 when new
StatsUpdated(ds, item, rel_dir, at) ==
    IF at = 0
    THEN Append(ds, <<rel_dir, DirStats([count |-> 0, lines |-> 0, extensions |-> <<>>], item,
                                        IF rel_dir = "(Root)" THEN 0 ELSE Count(rel_dir, "/") + 1)>>)
    ELSE [ds EXCEPT ![at] = <<rel_dir, DirStats(ds[at][2], item,
                                        IF rel_dir = "(Root)" THEN 0 ELSE Count(rel_dir, "/") + 1)>>]

\* the details of one item, with the file they belong to
DetailsOf(item) ==
    [i \in DOMAIN item.metrics.ajax_details |->
        [Line |-> item.metrics.ajax_details[i].Line,
         Code_Snippet |-> item.metrics.ajax_details[i].Code_Snippet,
         Category |-> item.metrics.ajax_details[i].Category,
         Capability |-> item.metrics.ajax_details[i].Capability,
         Difficulty |-> item.metrics.ajax_details[i].Difficulty,
         Is_Counted |-> item.metrics.ajax_details[i].Is_Counted,
         File_Path |-> item.file_path, Filename |-> item.file]]

\* Scanner.scan: one iteration of the aggregation loop over results
AggregateItem ==
    /\ pc = "scan"
    /\ future_to_file = {}
    /\ cur <= Len(results)
    /\ file_inventory' = Append(file_inventory, InventoryRow(results[cur]))
    /\ directory_stats' = StatsUpdated(directory_stats, results[cur], RelDir(results[cur].root),
                                       KeyIndex(directory_stats, RelDir(results[cur].root)))
    /\ all_ajax_details' = all_ajax_details \o DetailsOf(results[cur])
    /\ cur' = cur + 1
    /\ UNCHANGED <<pc, matches, match_no, parse_vars, depth_vars, compare_vars, static_vars, crawl_vars,
                   all_files, future_to_file, results>>

\* Scanner.scan: the return
ScanReturn ==
    /\ pc = "scan"
    /\ future_to_file = {}
    /\ cur > Len(results)
    /\ pc' = "scan_done"
    /\ UNCHANGED <<cur, matches, match_no, parse_vars, depth_vars, compare_vars, static_vars, crawl_vars, scan_vars>>

(***************************************************************************)
(* RepoScan-Analyser: run_static_scan (main.py) and FileReader.read_file   *)
(***************************************************************************)
\* a discovered file: its path, what opening and reading it does ("ok" or
\* the exception raised), its text, and what Parser.parse does on that text:
\* the regions it returns, or "raises"
Discovered(path, io, text, parse, regions) ==
    [path |-> path, io |-> io, text |-> text, parse |-> parse, regions |-> regions]

\* a region Parser.parse returns, by the fields that identify it
Region(path, line, kind) == [file_path |-> path, start_line |-> line, code_type |-> kind]

DiscoveredSeeds == {
    Discovered("a.cshtml", "ok", "<script>fetch('/api/users')</script>\n<p onclick='go()'>", "ok",
               <<Region("a.cshtml", 1, "scriptblock"), Region("a.cshtml", 2, "onclick")>>),
    Discovered("b.js", "ok", "x.send()", "ok", <<Region("b.js", 1, "standalone_js")>>),
    Discovered("c.html", "PermissionError", "", "ok", <<>>),
    Discovered("d.aspx", "ok", "<%@ Page %><script>", "raises", <<>>),
    Discovered("e.html", "ok", "<p>text</p>", "ok", <<>>)
}

\* the most files the discovery phase finds
MaxDiscovered == 3

\* FileReader.read_file: (content, encoding), or (None, error message);
\* content is <<text>>, and <<>> for None
read_file(f) ==
    IF f.io = "ok" THEN [content |-> <<f.text>>, encoding |-> "utf-8"]
    ELSE [content |-> <<>>, encoding |-> f.io]

StaticInit ==
    /\ files_to_scan \in {w \in SeqsUpTo(DiscoveredSeeds, MaxDiscovered) :
                            \A i, j \in DOMAIN w : w[i] = w[j] => i = j}
    /\ processed_count = 0
    /\ static_findings = <<>>
    /\ report_status = ""
    /\ pc = "static_loop"
    /\ cur = 1
    /\ matches = <<>>
    /\ match_no = 0
    /\ NoParse
    /\ NoDepth
    /\ NoCompare
    /\ NoScan
    /\ NoCrawl

\* a variant of Extended in which a parse that raises ends with the list emptied
ExtendedOrLost(found, f, read) ==
    IF read = <<>> THEN found
    ELSE IF f.parse = "raises" THEN <<>>
    ELSE found \o f.regions

\* all_findings after the body of the loop has run for one file
Extended(found, f, read) ==
    IF read = <<>> THEN found                   \* continue
    ELSE IF f.parse = "raises" THEN found          \* except Exception
    ELSE found \o f.regions                        \* all_findings.extend(findings)

\* run_static_scan: one iteration of the loop over files_to_scan
StaticFile ==
    /\ pc = "static_loop"
    /\ processed_count < Len(files_to_scan)
    /\ processed_count' = processed_count + 1
    /\ static_findings' = Extended(static_findings, files_to_scan[processed_count'],
                                   read_file(files_to_scan[processed_count']).content)
    /\ UNCHANGED <<pc, cur, matches, match_no, parse_vars, depth_vars, compare_vars, scan_vars, crawl_vars,
                   files_to_scan, report_status>>

\* run_static_scan: phase 3; Reporter.generate_report returns or raises
StaticReport ==
    /\ pc = "static_loop"
    /\ processed_count = Len(files_to_scan)
    /\ IF static_findings # <<>>
       THEN report_status' \in {"generated", "failed"}
       ELSE report_status' = "skipped"
    /\ pc' = "static_done"
    /\ UNCHANGED <<cur, matches, match_no, parse_vars, depth_vars, compare_vars, scan_vars, crawl_vars,
                   files_to_scan, processed_count, static_findings>>

(***************************************************************************)
(* The crawler (crawler/crawler.py, crawler/config.py)                     *)
(***************************************************************************)
MAX_DEPTH == 5

SKIP_EXTENSIONS == {".css", ".png", ".jpg", ".jpeg", ".gif", ".ico", ".svg", ".woff", ".ttf", ".pdf"}

\* a page of the web: the values of a[href], script[src] and
\* link[rel=stylesheet][href] in the order of the document
Page(url, links, scripts, styles) ==
    [url |-> url, links |-> links, scripts |-> scripts, styles |-> styles]

\* the web of the model: a site with cycles, fragments, a binary file, a
\* dead link and external resources, and a chain longer than MAX_DEPTH with a
\* shortcut to its end
Web == {
    Page("http://t/", <<"http://t/a", "/b", "http://t/a#top", "http://t/f.pdf",
                        "http://x/ext", "/missing">>,
         <<"/s.js", "http://cdn/x.js">>, <<"/m.css", "http://cdn/x.css">>),
    Page("http://t/a", <<"/b", "http://t/">>, <<>>, <<>>),
    Page("http://t/b", <<"http://t/a">>, <<"/s.js">>, <<>>),
    Page("http://c/0", <<"/1">>, <<>>, <<>>),
    Page("http://c/1", <<"/2", "/6">>, <<>>, <<>>),
    Page("http://c/2", <<"/3">>, <<>>, <<>>),
    Page("http://c/3", <<"/4">>, <<>>, <<>>),
    Page("http://c/4", <<"/5">>, <<>>, <<>>),
    Page("http://c/5", <<"/6", "/7">>, <<>>, <<>>),
    Page("http://c/6", <<"/0", "/5">>, <<>>, <<>>),
    Page("http://c/7", <<>>, <<>>, <<>>)
}

PageOf(url) == CHOOSE p \in Web : p.url = url

\* what session.get can give for a url: a 200 response that is HTML, a 200
\* response that is not, another status, or an exception
Outcomes(url) ==
    IF \E p \in Web : p.url = url THEN {"html", "other", "status", "exception"}
    ELSE {"status", "exception"}

\* urljoin(base, href) for an href that is an absolute URL or starts with "/"
urljoin(base, href) ==
    IF SchemeLen(href) > 0 THEN href
    ELSE Sub(base, 1, FirstOfChars(base, {"/", "?", "#"}, SchemeLen(base) + 3) - 1) \o href

\* a variant of is_internal that takes every URL with a host for internal
is_internal_any(url, domain) == netloc(url, SchemeLen(url)) # ""

\* Crawler.is_internal, for the domain of the crawler
is_internal(url, domain) == netloc(url, SchemeLen(url)) = domain

\* any(next_url.lower().endswith(ext) for ext in config.SKIP_EXTENSIONS)
SkipExtension(url) ==
    \E ext \in SKIP_EXTENSIONS : Sub(Lower(url), Len(url) - Len(ext) + 1, Len(url)) = ext
                                 /\ Len(url) >= Len(ext)

\* urljoin(url, a['href']).split('#')[0] for the link the call is at
NextUrl(call) ==
    Sub(urljoin(call.url, PageOf(call.url).links[call.at]), 1,
        FirstOfChars(urljoin(call.url, PageOf(call.url).links[call.at]), {"#"}, 1) - 1)

\* the base URLs a crawl of the model starts from
BaseUrls == {"http://t/", "http://c/0"}

\* The links and the resources of the pages are resolved once per base URL
\* and page; the tables below hold the results and the operators after them
\* look them up.

\* for the link at position at of a page: next_url, and whether the loop
\* calls crawl on it when it is not visited yet (internal, no skipped extension)
LinkTable ==
    UNION { { <<b, p.url, at, NextUrl([url |-> p.url, at |-> at]),
                is_internal(NextUrl([url |-> p.url, at |-> at]), netloc(b, SchemeLen(b)))
                /\ ~SkipExtension(NextUrl([url |-> p.url, at |-> at]))>> :
              at \in DOMAIN p.links } : b \in BaseUrls, p \in Web }

Link(b, call) == CHOOSE t \in LinkTable : t[1] = b /\ t[2] = call.url /\ t[3] = call.at

CrawlInit ==
    /\ base_url \in BaseUrls
    /\ visited = {}
    /\ stack = <<>>
    /\ assets_to_scan = {}
    /\ external_assets = <<>>
    /\ responses = <<>>
    /\ pc = "crawl_start"
    /\ cur = 1
    /\ matches = <<>>
    /\ match_no = 0
    /\ NoParse
    /\ NoDepth
    /\ NoCompare
    /\ NoScan
    /\ NoStatic

\* a variant of Entered in which a failed fetch ends every call in progress
EnteredOrAborted(calls, url, depth, outcome) ==
    IF outcome = "html" THEN Append(calls, [url |-> url, depth |-> depth, at |-> 1])
    ELSE IF outcome = "other" THEN calls
    ELSE <<>>

\* the calls in progress after crawl(url, depth) has fetched url: the call
\* goes on to the links of an HTML page and returns in every other case
Entered(calls, url, depth, outcome) ==
    IF outcome = "html" THEN Append(calls, [url |-> url, depth |-> depth, at |-> 1])
    ELSE calls

\* the calls in progress once the innermost has moved to its next link
Advanced(calls) ==
    [calls EXCEPT ![Len(calls)] = [url |-> calls[Len(calls)].url, depth |-> calls[Len(calls)].depth,
                                   at |-> calls[Len(calls)].at + 1]]

\* a variant of Fetch that does not record the url as visited
FetchUnrecorded(calls, url, depth) ==
    \E outcome \in Outcomes(url) :
        /\ visited' = visited
        /\ responses' = Append(responses, [url |-> url, depth |-> depth, outcome |-> outcome])
        /\ assets_to_scan' = IF outcome = "html" THEN assets_to_scan \cup {<<url, "html">>}
                             ELSE assets_to_scan
        /\ stack' = Entered(calls, url, depth, outcome)
        /\ pc' = IF stack' = <<>> THEN "crawl_done" ELSE "crawl"

\* crawl(url, depth) up to the end of the fetch, from the calls in progress
Fetch(calls, url, depth) ==
    \E outcome \in Outcomes(url) :
        /\ visited' = visited \cup {url}
        /\ responses' = Append(responses, [url |-> url, depth |-> depth, outcome |-> outcome])
        /\ assets_to_scan' = IF outcome = "html" THEN assets_to_scan \cup {<<url, "html">>}
                             ELSE assets_to_scan
        /\ stack' = Entered(calls, url, depth, outcome)
        /\ pc' = IF stack' = <<>> THEN "crawl_done" ELSE "crawl"

\* Crawler.crawl(): the outermost call
CrawlStart ==
    /\ pc = "crawl_start"
    /\ Fetch(stack, base_url, 0)
    /\ UNCHANGED <<cur, matches, match_no, parse_vars, depth_vars, compare_vars, scan_vars,
                   static_vars, base_url, external_assets>>

\* one iteration of the loop over the links of the innermost call
CrawlLink ==
    /\ pc = "crawl"
    /\ stack[Len(stack)].at <= Len(PageOf(stack[Len(stack)].url).links)
    /\ IF /\ Link(base_url, stack[Len(stack)])[5]
          /\ Link(base_url, stack[Len(stack)])[4] \notin visited
          /\ stack[Len(stack)].depth + 1 <= MAX_DEPTH
       THEN Fetch(Advanced(stack), Link(base_url, stack[Len(stack)])[4], stack[Len(stack)].depth + 1)
       ELSE /\ stack' = Advanced(stack)
            /\ UNCHANGED <<pc, visited, responses, assets_to_scan>>
    /\ UNCHANGED <<cur, matches, match_no, parse_vars, depth_vars, compare_vars, scan_vars,
                   static_vars, base_url, external_assets>>

\* the internal scripts among srcs, as assets
InternalScripts(url, srcs, domain) ==
    {<<urljoin(url, srcs[i]), "js">> : i \in {q \in DOMAIN srcs : is_internal(urljoin(url, srcs[q]), domain)}}

\* the external resources among hrefs, from the i-th on
RECURSIVE ExternalFrom(_, _, _, _, _)
ExternalFrom(url, hrefs, type, domain, i) ==
    IF i > Len(hrefs) THEN <<>>
    ELSE (IF is_internal(urljoin(url, hrefs[i]), domain) THEN <<>>
          ELSE <<[url |-> urljoin(url, hrefs[i]), type |-> type, source_page |-> url]>>)
         \o ExternalFrom(url, hrefs, type, domain, i + 1)

\* for a page: the script assets and the external resources its call adds
ResourceTable ==
    { <<b, p.url,
        InternalScripts(p.url, p.scripts, netloc(b, SchemeLen(b))),
        ExternalFrom(p.url, p.scripts, "Script", netloc(b, SchemeLen(b)), 1)
        \o ExternalFrom(p.url, p.styles, "Stylesheet", netloc(b, SchemeLen(b)), 1)>> :
      b \in BaseUrls, p \in Web }

Resources(b, url) == CHOOSE t \in ResourceTable : t[1] = b /\ t[2] = url

\* the innermost call after its last link: the scripts, the stylesheets, the return
CrawlReturn ==
    /\ pc = "crawl"
    /\ stack[Len(stack)].at > Len(PageOf(stack[Len(stack)].url).links)
    /\ assets_to_scan' = assets_to_scan \cup Resources(base_url, stack[Len(stack)].url)[3]
    /\ external_assets' = external_assets \o Resources(base_url, stack[Len(stack)].url)[4]
    /\ stack' = SubSeq(stack, 1, Len(stack) - 1)
    /\ pc' = IF Len(stack) = 1 THEN "crawl_done" ELSE "crawl"
    /\ UNCHANGED <<cur, matches, match_no, parse_vars, depth_vars, compare_vars, scan_vars,
                   static_vars, base_url, visited, responses>>
(***************************************************************************)
(* The runs of the model: a parse of one file, a depth scan of one file,   *)
(* a correlation of one crawl with one static report, a scan of one        *)
(* directory tree, a static scan of the discovered files, or one crawl     *)
(***************************************************************************)
Init == ParseInit \/ DepthInit \/ CompareInit \/ ScanInit \/ StaticInit \/ CrawlInit

Next ==
    \/ Deduplicate
    \/ EnrichOther
    \/ DetectStart
    \/ DetectMatch
    \/ DetectFinish
    \/ DetectDynamic
    \/ Assess
    \/ DepthRead
    \/ DepthMatch
    \/ DepthFinish
    \/ LoadSheet
    \/ CorrelateFinding
    \/ CorrelateMissing
    \/ GenerateReport
    \/ TaskCompleted
    \/ AggregateItem
    \/ ScanReturn
    \/ StaticFile
    \/ StaticReport
    \/ CrawlStart
    \/ CrawlLink
    \/ CrawlReturn

Spec == Init /\ [][Next]_vars

(***************************************************************************)
(* One crawl, run to its end: the crawler is one sequential thread, every  *)
(* request has a timeout, so a step that can be taken is taken             *)
(***************************************************************************)
CrawlNext == CrawlStart \/ CrawlLink \/ CrawlReturn

CrawlSpec == CrawlInit /\ [][CrawlNext]_vars /\ WF_vars(CrawlNext)

(***************************************************************************)
(* Properties                                                              *)
(***************************************************************************)
ParsePcs == {"dedup", "enrich", "ajax_loop", "ajax_post", "dynamic", "assess", "done"}

DepthPcs == {"depth_read", "depth_loop", "depth_post", "depth_done"}

\* the text of a match and its lower-cased form, for every match of every
\* region text of the model: <<region text, number of the match, text, lower>>
MatchedAt(code, span) == Sub(code, span[1], span[2] - 1)

MatchTextTable ==
    UNION { { <<t[1], m, MatchedAt(t[1], t[2][m]), Lower(MatchedAt(t[1], t[2][m]))>> :
                m \in DOMAIN t[2] } : t \in AjaxMatchTable }

\* the text of the match the m-th entry of ajax_details was made for
MatchedText(sn, m) == (CHOOSE t \in MatchTextTable : t[1] = sn.full_code /\ t[2] = m)[3]

MatchedLower(sn, m) == (CHOOSE t \in MatchTextTable : t[1] = sn.full_code /\ t[2] = m)[4]

\* (category, capability, difficulty, counts_as_request) as a detail shows them
Shown(d) == <<d.Category, d.Capability, d.Difficulty, d.Is_Counted>>

AsShown(v) ==
    <<v.category, v.capability, v.difficulty, IF v.is_logical_request THEN "Yes" ELSE "No">>

\* detect_ajax_patterns has returned for findings[i]
AjaxPassOver(i) == i < cur \/ (i = cur /\ pc \in {"ajax_post", "dynamic", "assess"})

\* _detect_dynamic has returned for findings[i]
DynamicPassOver(i) == i < cur \/ (i = cur /\ pc = "assess")

\* the lower-cased matched texts of the model, and for each of them the
\* verdict of the earliest rule that fires on it
AllLowerMatches == {t[4] : t \in MatchTextTable}

FirstRuleTable == { <<lm, AsShown(FirstRuleOf(Firing(lm)))>> : lm \in AllLowerMatches }

FirstRuleVerdict(lm) == (CHOOSE t \in FirstRuleTable : t[1] = lm)[2]

\* C1: every entry of ajax_details carries the category, capability,
\* difficulty and Is_Counted of the earliest rule of the catalogue that fires
\* on the lower-cased matched text, whatever later rules fire on it too, and
\* the default (Request, Data Exchange, Easy, counted) when no rule fires.
C1_FirstMatchPrecedence ==
    \A i \in DOMAIN findings : \A m \in DOMAIN findings[i].ajax_details :
        Shown(findings[i].ajax_details[m])
            = FirstRuleVerdict(MatchedLower(findings[i], m))

\* the matched texts on which two rules with different verdicts fire
TwoVerdicts(firing) == \E a, b \in firing : Catalogue[a].v # Catalogue[b].v

OverlapTable == { <<lm, TwoVerdicts(Firing(lm))>> : lm \in AllLowerMatches }

C1_Witness ==
    /\ pc = "done"
    /\ \E i \in DOMAIN findings : \E m \in DOMAIN findings[i].ajax_details :
          <<MatchedLower(findings[i], m), TRUE>> \in OverlapTable

\* the number of entries of a details list whose Is_Counted is "Yes"
CountedDetails(details) == Cardinality({m \in DOMAIN details : details[m].Is_Counted = "Yes"})

\* C2: at every step of the classification of a region or a file, the tally
\* (ajax_count of the region, metrics['ajax_calls'] of the file) is the
\* number of emitted entries whose Is_Counted is "Yes": an entry that is not
\* counted adds nothing and a counted entry adds exactly one.
C2_TallyIsCounted ==
    /\ \A i \in DOMAIN findings :
          findings[i].ajax_count = CountedDetails(findings[i].ajax_details)
    /\ pc \in DepthPcs => metrics.ajax_calls = CountedDetails(metrics.ajax_details)

\* a classified region with counted and uncounted entries
C2_Witness ==
    /\ pc = "done"
    /\ \E i \in DOMAIN findings :
          /\ findings[i].ajax_count >= 2
          /\ Len(findings[i].ajax_details) > findings[i].ajax_count

\* C3: deduplicating the regions of two identical extractions, one after the
\* other, gives the regions that deduplicating one extraction gives, the
\* step has produced exactly those, and deduplicating its result again
\* changes nothing.
C3_DedupIdempotent ==
    (pc \in ParsePcs /\ pc # "dedup") =>
        /\ Dedup(all_findings \o all_findings) = Dedup(all_findings)
        /\ Len(findings) = Len(Dedup(all_findings))
        /\ \A i \in DOMAIN findings : Key(findings[i]) = Key(Dedup(all_findings)[i])
        /\ Dedup(findings) = findings

\* the step has just dropped a region whose key it had seen
C3_Witness ==
    /\ pc = "enrich"
    /\ cur = 1
    /\ Len(findings) < Len(all_findings)

\* the cells of the static report that _load_static_report reads: the cell
\* of the Code Snippet column of every data row that is not empty, in a
\* sheet that is not skipped and has both headers
ReadSheets ==
    {s \in DOMAIN workbook :
        /\ workbook[s].name \notin SKIPPED_SHEETS
        /\ HasHeader(workbook[s].headers, "Code Snippet")
        /\ HasHeader(workbook[s].headers, "File Path")}

CellsOf(s, ws) ==
    {[sheet |-> s, row |-> r + 1,
      file |-> ws.rows[r][HeaderIndex(ws.headers, "File Path")],
      text |-> ws.rows[r][HeaderIndex(ws.headers, "Code Snippet")]] : r \in DOMAIN ws.rows}

LoadedCells == {c \in UNION {CellsOf(s, workbook[s]) : s \in ReadSheets} : c.text # ""}

\* the words of a text: its maximal runs of characters that are not whitespace
WordStarts(s) ==
    {i \in 1..Len(s) : Ch(s, i) \notin Whitespace /\ (i = 1 \/ Ch(s, i - 1) \in Whitespace)}

WordEnd(s, i) == MinOf({j \in i..Len(s) : j = Len(s) \/ Ch(s, j + 1) \in Whitespace})

NthOf(S, n) == CHOOSE x \in S : Cardinality({y \in S : y <= x}) = n

WordsOf(s) ==
    [n \in 1..Cardinality(WordStarts(s)) |->
        Sub(s, NthOf(WordStarts(s), n), WordEnd(s, NthOf(WordStarts(s), n)))]

\* the texts of the cells and of the dynamic snippets of the model
Texts ==
    UNION { UNION { {ws.rows[r][c] : c \in DOMAIN ws.rows[r]} : r \in DOMAIN ws.rows } :
            ws \in SheetSeeds }
    \cup {d.snippet : d \in DynamicSeeds}

\* two texts are equal once every whitespace run is one space and the ends
\* are trimmed: they are the same words in the same order
SameTextTable == { <<p[1], p[2], WordsOf(p[1]) = WordsOf(p[2])>> : p \in Texts \X Texts }

SameText(a, b) == <<a, b, TRUE>> \in SameTextTable

\* the record r was made for the dynamic finding d
IsFor(r, d) ==
    /\ r.dynamic_url = d.file_path
    /\ r.snippet = d.snippet
    /\ r.ajax_type = d.ajax_pattern
    /\ r.endpoint_url = d.endpoint_url

Occurrences(records, d) == Cardinality({n \in DOMAIN records : IsFor(records[n], d)})

Range(seq) == {seq[n] : n \in DOMAIN seq}

\* the static key at position i has a VERIFIED record / a MISSING_IN_CRAWL record
InVerified(i) ==
    \E n \in DOMAIN correlated.matches :
        /\ normalize_snippet(correlated.matches[n].snippet) = static_snippets[i][1]
        /\ correlated.matches[n].static_locations = static_snippets[i][2]

InMissing(i) ==
    \E n \in DOMAIN correlated.missing_findings :
        /\ correlated.missing_findings[n].snippet = Prefix(static_snippets[i][1], 100) \o "..."
        /\ correlated.missing_findings[n].static_locations = static_snippets[i][2]

\* C4: when correlate returns, every static key has a VERIFIED record or one
\* MISSING_IN_CRAWL record and never both; every dynamic finding has exactly
\* one record, VERIFIED or NEW_WEB_ONLY and never both; and every record of
\* the three lists is the record of a static key or of a dynamic finding.
C4_CorrelationPartition ==
    pc = "correlated" =>
        /\ \A i \in DOMAIN static_snippets : InVerified(i) <=> ~InMissing(i)
        /\ Len(correlated.missing_findings)
             = Cardinality({i \in DOMAIN static_snippets : ~InVerified(i)})
        /\ Len(correlated.matches) + Len(correlated.new_findings) = Len(dynamic_findings)
        /\ \A d \in Range(dynamic_findings) :
              /\ Occurrences(correlated.matches, d) + Occurrences(correlated.new_findings, d)
                   = Cardinality({n \in DOMAIN dynamic_findings : dynamic_findings[n] = d})
              /\ Occurrences(correlated.matches, d) = 0
                   \/ Occurrences(correlated.new_findings, d) = 0
        /\ \A r \in Range(correlated.matches) :
              /\ r.status = "VERIFIED"
              /\ \E d \in Range(dynamic_findings) : IsFor(r, d)
              /\ \E i \in DOMAIN static_snippets :
                    normalize_snippet(r.snippet) = static_snippets[i][1]
        /\ \A r \in Range(correlated.new_findings) :
              r.status = "NEW_WEB_ONLY" /\ \E d \in Range(dynamic_findings) : IsFor(r, d)
        /\ \A r \in Range(correlated.missing_findings) :
              /\ r.status = "MISSING_IN_CRAWL"
              /\ \E i \in DOMAIN static_snippets : r.static_locations = static_snippets[i][2]

\* correlate has returned records of all three kinds
C4_Witness ==
    /\ pc = "correlated"
    /\ correlated.matches # <<>>
    /\ correlated.new_findings # <<>>
    /\ correlated.missing_findings # <<>>

\* the cells whose text is that of the dynamic finding d, whitespace aside
CellsLike(d) == {c \in LoadedCells : SameText(c.text, d.snippet)}

Known(d) == CellsLike(d) # {}

Unknown(d) == ~Known(d)

\* C5: when correlate returns, the VERIFIED records are the records of
\* exactly the dynamic findings whose snippet, whitespace runs collapsed and
\* ends trimmed, is the likewise-normalized text of a cell read from the
\* static report, each with the URL of its finding and the (file, row) of
\* every such cell; every other finding has a NEW_WEB_ONLY record.
C5_VerifiedIffSameText ==
    pc = "correlated" =>
        /\ Len(correlated.matches) = Len(SelectSeq(dynamic_findings, Known))
        /\ \A n \in DOMAIN correlated.matches :
              /\ correlated.matches[n].status = "VERIFIED"
              /\ IsFor(correlated.matches[n], SelectSeq(dynamic_findings, Known)[n])
              /\ Range(correlated.matches[n].static_locations)
                   = {[file |-> c.file, row |-> c.row] :
                        c \in CellsLike(SelectSeq(dynamic_findings, Known)[n])}
              /\ Len(correlated.matches[n].static_locations)
                   = Cardinality(CellsLike(SelectSeq(dynamic_findings, Known)[n]))
        /\ Len(correlated.new_findings) = Len(SelectSeq(dynamic_findings, Unknown))
        /\ \A n \in DOMAIN correlated.new_findings :
              /\ correlated.new_findings[n].status = "NEW_WEB_ONLY"
              /\ IsFor(correlated.new_findings[n], SelectSeq(dynamic_findings, Unknown)[n])

\* a finding is VERIFIED against two cells, neither of which is literally
\* its snippet, and another finding is not VERIFIED
C5_Witness ==
    /\ pc = "correlated"
    /\ correlated.new_findings # <<>>
    /\ \E n \in DOMAIN correlated.matches :
          /\ Len(correlated.matches[n].static_locations) >= 2
          /\ \A c \in LoadedCells : c.text # correlated.matches[n].snippet

SENTINELS == {"Dynamic/Variable", "Server-Generated", "Unknown/Dynamic"}

\* for each region text, whether no URL pattern matches in its first 1000 characters
UrlFreeTable ==
    { <<c, \A name \in DOMAIN URL_PATTERNS :
              SearchGroup(URL_PATTERNS[name], Prefix(c, SEARCH_LIMIT)) = <<>> >> : c \in Codes }

UrlFree(code) == <<code, TRUE>> \in UrlFreeTable

EndpointOk(code, endpoint) ==
    /\ endpoint # ""
    /\ endpoint \in SENTINELS \/ Contains(code, endpoint)
    /\ UrlFree(code) => endpoint = "Unknown/Dynamic"

\* C6: the Endpoint of every entry of ajax_details is not empty; it is one of
\* the three sentinels or a piece of the region text; and it is
\* "Unknown/Dynamic" when no URL pattern matches in the region.
C6_EndpointNeverEmpty ==
    \A i \in DOMAIN findings : \A m \in DOMAIN findings[i].ajax_details :
        EndpointOk(findings[i].full_code, findings[i].ajax_details[m].Endpoint)

\* a region no URL pattern matches in has an entry, and another entry holds a captured URL
C6_Witness ==
    /\ pc = "done"
    /\ \E i \in DOMAIN findings : \E m \in DOMAIN findings[i].ajax_details :
          /\ UrlFree(findings[i].full_code)
          /\ findings[i].ajax_details[m].Endpoint = "Unknown/Dynamic"
    /\ \E i \in DOMAIN findings : \E m \in DOMAIN findings[i].ajax_details :
          findings[i].ajax_details[m].Endpoint \notin SENTINELS

\* the classification of each matched text of the model, taken alone
AloneTable == { <<lm, AsShown(ClassifyAjax(lm))>> : lm \in AllLowerMatches }

ClassifiedAlone(lm) == (CHOOSE t \in AloneTable : t[1] = lm)[2]

\* C7: two entries made for the same matched text carry the same category,
\* capability, difficulty and Is_Counted, whatever their regions, their
\* positions and the entries made before them; and each entry carries what
\* the classification of its matched text alone gives.
C7_ClassificationOfTextAlone ==
    /\ \A i, j \in DOMAIN findings :
          \A m \in DOMAIN findings[i].ajax_details, n \in DOMAIN findings[j].ajax_details :
              MatchedText(findings[i], m) = MatchedText(findings[j], n)
                  => Shown(findings[i].ajax_details[m]) = Shown(findings[j].ajax_details[n])
    /\ \A i \in DOMAIN findings : \A m \in DOMAIN findings[i].ajax_details :
          Shown(findings[i].ajax_details[m])
              = ClassifiedAlone(MatchedLower(findings[i], m))

\* the same text has been matched in two different regions, at different
\* positions, the second time after other matches of its region
C7_Witness ==
    /\ pc = "done"
    /\ \E i, j \in DOMAIN findings :
          /\ findings[i].full_code # findings[j].full_code
          /\ \E m \in DOMAIN findings[i].ajax_details, n \in DOMAIN findings[j].ajax_details :
                /\ m < n
                /\ MatchedText(findings[i], m) = MatchedText(findings[j], n)
                /\ AjaxMatches(findings[i].full_code)[m][1]
                     # AjaxMatches(findings[j].full_code)[n][1]

\* C8: a JS script block whose text is fetch('/api/users') has, once
\* detect_ajax_patterns has run on it, exactly one entry, of category
\* "Request", counted, with Endpoint "/api/users", and ajax_count 1.
C8_FetchLiteral ==
    \A i \in DOMAIN findings :
        (/\ findings[i].full_code = "fetch('/api/users')"
         /\ findings[i].category = "JS"
         /\ findings[i].code_type = "scriptblock"
         /\ AjaxPassOver(i))
        => /\ Len(findings[i].ajax_details) = 1
           /\ findings[i].ajax_details[1].Category = "Request"
           /\ findings[i].ajax_details[1].Is_Counted = "Yes"
           /\ findings[i].ajax_details[1].Endpoint = "/api/users"
           /\ findings[i].ajax_count = 1

C8_Witness ==
    \E i \in DOMAIN findings :
        /\ findings[i].full_code = "fetch('/api/users')"
        /\ findings[i].category = "JS"
        /\ findings[i].code_type = "scriptblock"
        /\ AjaxPassOver(i)
        /\ findings[i].ajax_detected

\* C9: a JS region whose text is $.ajaxSetup({timeout: 3000}) has, once
\* detect_ajax_patterns has run on it, exactly one entry, of category
\* "Config" and capability "AJAX Configuration", not counted, and ajax_count 0.
C9_AjaxSetupNotCounted ==
    \A i \in DOMAIN findings :
        (/\ findings[i].full_code = "$.ajaxSetup({timeout: 3000})"
         /\ findings[i].category = "JS"
         /\ AjaxPassOver(i))
        => /\ Len(findings[i].ajax_details) = 1
           /\ findings[i].ajax_details[1].Category = "Config"
           /\ findings[i].ajax_details[1].Capability = "AJAX Configuration"
           /\ findings[i].ajax_details[1].Is_Counted = "No"
           /\ findings[i].ajax_count = 0

C9_Witness ==
    \E i \in DOMAIN findings :
        /\ findings[i].full_code = "$.ajaxSetup({timeout: 3000})"
        /\ findings[i].category = "JS"
        /\ AjaxPassOver(i)
        /\ findings[i].ajax_detected

\* C10: a JS region whose text is document.write('<script>') has, once
\* _detect_dynamic has run on it, dynamic_code_detected true, dynamic_count
\* at least 1 and the name of the DOM sink or the JS sink pattern.
C10_DocumentWriteFlagged ==
    \A i \in DOMAIN findings :
        (/\ findings[i].full_code = "document.write('<script>')"
         /\ findings[i].category = "JS"
         /\ DynamicPassOver(i))
        => /\ findings[i].dynamic_code_detected
           /\ findings[i].dynamic_count >= 1
           /\ findings[i].dynamic_pattern \in {"dom_sink", "js_sink"}


\* C11: every JS region whose text contains a server-dependency pattern has
\* has_server_deps true once detect_ajax_patterns has run on it, whether or
\* not the region holds an AJAX match.
C11_ServerDepsIndependent ==
    \A i \in DOMAIN findings :
        (/\ findings[i].category = "JS"
         /\ ServerDeps(findings[i].full_code)
         /\ AjaxPassOver(i))
        => findings[i].has_server_deps

\* an absolute URL: letters, "://" and a host
AbsoluteUrl(e) ==
    \E q \in 2..Len(e) :
        /\ Sub(e, q, q + 2) = "://"
        /\ \A h \in 1..(q - 1) : Ch(e, h) \in Chars(LowerLetters)
        /\ Sub(e, q + 3, q + 3) \notin {"", "/"}

\* the host of an absolute URL
HostOf(e) ==
    LET q == CHOOSE h \in 2..Len(e) : Sub(e, h, h + 2) = "://"
    IN  Sub(e, q + 3, MinOf({h \in (q + 3)..Len(e) : Ch(e, h) = "/"} \cup {Len(e) + 1}) - 1)

\* the rows of the matrix whose endpoint is an absolute URL of the origin
RowsOf(origin) ==
    {h \in DOMAIN report.matrix :
        AbsoluteUrl(report.matrix[h].endpoint) /\ HostOf(report.matrix[h].endpoint) = origin}

\* C12: once the tracker has built the CSP allowlist, every VERIFIED or
\* NEW_WEB_ONLY record whose endpoint is not an absolute URL (a relative
\* path, the empty text, a sentinel) is labelled "Manual Review Required"
\* and has no part in any origin entry; every origin entry counts exactly
\* the records with an absolute URL of that origin and holds their statuses.
C12_OnlyAbsoluteUrlsCounted ==
    pc = "reported" =>
        /\ \A h \in DOMAIN report.matrix :
              ~AbsoluteUrl(report.matrix[h].endpoint)
              => report.matrix[h].csp = "Manual Review Required"
        /\ \A h \in DOMAIN report.domains :
              /\ report.domains[h][2].count = Cardinality(RowsOf(report.domains[h][1]))
              /\ report.domains[h][2].status =
                    {IF report.matrix[q].status = "VERIFIED" THEN "Verified" ELSE "New" :
                        q \in RowsOf(report.domains[h][1])}
        /\ \A h \in DOMAIN report.matrix :
              AbsoluteUrl(report.matrix[h].endpoint)
              => \E q \in DOMAIN report.domains :
                    report.domains[q][1] = HostOf(report.matrix[h].endpoint)

\* the files of the scan whose task read them without an exception
ReadFiles == {h \in DOMAIN all_files : all_files[h].stat = "ok" /\ all_files[h].read = "ok"}

\* the rows of file_inventory of the file at position h of all_files
RowsFor(h) ==
    {q \in DOMAIN file_inventory :
        /\ file_inventory[q].Filename = all_files[h].file
        /\ file_inventory[q].Directory = RelDir(all_files[h].root)}

RECURSIVE SumCounts(_, _)
SumCounts(ds, h) == IF h = 0 THEN 0 ELSE ds[h][2].count + SumCounts(ds, h - 1)

\* C13: when Scanner.scan has returned, a file whose task met an exception
\* (of getsize, open or read) has no record in file_inventory and no part
\* in directory_stats, and every other file has exactly one record.
C13_FailedFilesLeaveNoRecord ==
    pc = "scan_done" =>
        /\ \A h \in DOMAIN all_files :
              Cardinality(RowsFor(h)) = IF h \in ReadFiles THEN 1 ELSE 0
        /\ SumCounts(directory_stats, Len(directory_stats)) = Cardinality(ReadFiles)

\* the files among the first h of files_to_scan that were read and parsed
NonFailing(h) ==
    {q \in 1..h : files_to_scan[q].io = "ok" /\ files_to_scan[q].parse = "ok"}

\* the regions of the non-failing files among the first h, in file order
RECURSIVE FindingsUpTo(_)
FindingsUpTo(h) ==
    IF h = 0 THEN <<>>
    ELSE FindingsUpTo(h - 1) \o (IF h \in NonFailing(h) THEN files_to_scan[h].regions ELSE <<>>)

\* C14: in run_static_scan the findings collected after any number of files
\* are exactly the findings of the files read and parsed without failure,
\* whichever files failed; the loop goes through every file before the
\* report, and after the report, generated or failed with an exception, the
\* run is at its end with all those findings.
C14_StaticScanSurvivesFailures ==
    pc \in {"static_loop", "static_done"} =>
        /\ static_findings = FindingsUpTo(processed_count)
        /\ pc = "static_done" => processed_count = Len(files_to_scan)
        /\ report_status # "" => pc = "static_done"
        /\ pc = "static_done" =>
              report_status \in (IF static_findings = <<>> THEN {"skipped"}
                                 ELSE {"generated", "failed"})

C14_Witness ==
    /\ pc = "static_done"
    /\ report_status = "failed"
    /\ \E h, q \in DOMAIN files_to_scan :
          /\ files_to_scan[h].io # "ok"
          /\ files_to_scan[q].parse = "raises"
          /\ h < Len(files_to_scan) /\ q < Len(files_to_scan)
    /\ static_findings # <<>>

\* the requests made so far for a url
RequestsFor(url) == {h \in DOMAIN responses : responses[h].url = url}

\* the links of a fetched page that the crawler follows: the internal ones
\* that are not binary files, without their fragment
FollowedLinks(url) ==
    {NextUrl([url |-> url, at |-> h]) : h \in DOMAIN PageOf(url).links}
    \cap {u \in {NextUrl([url |-> url, at |-> h]) : h \in DOMAIN PageOf(url).links} :
            is_internal(u, netloc(base_url, SchemeLen(base_url))) /\ ~SkipExtension(u)}

\* C15: in a crawl no url is requested twice, whatever its request gave,
\* and when the crawl is over every followed link of every HTML page that
\* was fetched above the depth bound has been requested, whichever requests
\* failed with a status other than 200 or with an exception.
C15_FailedFetchDoesNotAbort ==
    pc \in {"crawl", "crawl_done"} =>
        /\ \A h \in DOMAIN responses : RequestsFor(responses[h].url) = {h}
        /\ pc = "crawl_done" =>
              \A h \in DOMAIN responses :
                 (responses[h].outcome = "html" /\ responses[h].depth < MAX_DEPTH)
                 => \A u \in FollowedLinks(responses[h].url) : RequestsFor(u) # {}

C15_Witness ==
    /\ pc = "crawl_done"
    /\ \E h, q \in DOMAIN responses :
          /\ h < q
          /\ responses[h].outcome = "status"
          /\ responses[q].outcome = "exception"
          /\ q < Len(responses)

\* the parse is one of a .js file and has returned
JsParsed ==
    /\ pc = "done"
    /\ all_findings # <<>>
    /\ ExtOf(all_findings[1].file_path) = ".js"

\* the region is the standalone region of the file parsed
IsStandalone(sn) ==
    /\ sn.code_type = "standalone_js"
    /\ sn.category = "JS"
    /\ sn.source_type = "LOCAL"
    /\ sn.start_line = 1
    /\ sn.end_line = Len(SplitLines(content))
    /\ sn.full_code = Strip(content)

\* C16 as stated: the parse of a .js file returns exactly one region, the
\* standalone region of category JS, provenance LOCAL, kind standalone_js,
\* from line 1 over the whole file, and no other region.
C16_OnlyStandaloneRegion ==
    JsParsed => Len(findings) = 1 /\ IsStandalone(findings[1])

\* the line holds href=, a quote, any blanks and javascript:, in any case
HoldsJsHref(line) ==
    \E h \in 1..Len(line) :
        /\ Lower(Sub(line, h, h + 4)) = "href="
        /\ Ch(line, h + 5) \in {"'", "\""}
        /\ \E q \in (h + 6)..(Len(line) + 1) :
              /\ \A z \in (h + 6)..(q - 1) : Ch(line, z) \in Whitespace
              /\ Lower(Sub(line, q, q + 10)) = "javascript:"

JsHrefLines == {h \in DOMAIN SplitLines(content) : HoldsJsHref(SplitLines(content)[h])}

\* C16, amended: the parse of a .js file returns exactly one standalone
\* region (JS, LOCAL, standalone_js, from line 1 over the whole file, the
\* stripped content), as its last region; the regions before it are the
\* javascript-uri regions of the regex pass, one for each line of the file
\* that holds href="javascript:, in line order.
C16_StandalonePlusJsUriLines ==
    JsParsed =>
        /\ IsStandalone(findings[Len(findings)])
        /\ Len(findings) = Cardinality(JsHrefLines) + 1
        /\ \A h \in 1..(Len(findings) - 1) :
              /\ findings[h].code_type = "jsuri"
              /\ findings[h].category = "JS"
              /\ findings[h].start_line \in JsHrefLines
              /\ findings[h].full_code = Strip(SplitLines(content)[findings[h].start_line])
              /\ \A q \in 1..(h - 1) : findings[q].start_line < findings[h].start_line

C16_Witness ==
    /\ JsParsed
    /\ Len(findings) > 1
    /\ findings[1].code_type = "jsuri"

\* C17: every region Parser.parse returns has a full_code that is not empty.
C17_FullCodeNeverEmpty ==
    (pc \in ParsePcs /\ pc # "dedup") =>
        \A h \in DOMAIN findings : findings[h].full_code # ""

\* the region `a` of the regex pass and the region `b` of the DOM pass detect
\* the same attribute: b's text is the value of an href attribute on a's line
SameAttribute(a, b) ==
    /\ a.code_type = "jsuri" /\ b.code_type = "jsuri"
    /\ a.start_line = b.start_line
    /\ Contains(a.full_code, "href=\"" \o b.full_code \o "\"")

\* C18: when the regex pass and the DOM pass both detect the same
\* href="javascript:..." attribute, deduplication leaves a single javascript-uri
\* region for it.
C18_JsUriDetectedOnce ==
    (pc \in ParsePcs /\ pc # "dedup") =>
        \A i, j \in DOMAIN findings :
            SameAttribute(findings[i], findings[j]) => i = j

\* the number of newline characters of text before the match at span
NewlinesBefore(text, span) == Count(Sub(text, 1, span[1] - 1), "\n")

\* C19: the Line of a finding is the start line of its region plus the number
\* of newline characters of the region text before the start of the match (the
\* region of the depth scanner is the whole file, which starts at line 1).
C19_LineCountsNewlines ==
    /\ pc \in {"ajax_loop", "ajax_post"} =>
          \A k \in DOMAIN findings[cur].ajax_details :
              findings[cur].ajax_details[k].Line =
                  findings[cur].start_line + NewlinesBefore(findings[cur].full_code, matches[k])
    /\ pc \in {"depth_loop", "depth_post"} =>
          \A k \in DOMAIN metrics.ajax_details :
              metrics.ajax_details[k].Line = 1 + NewlinesBefore(content, matches[k])

\* the top-level fields of the region sn are those of the entry d
TopLevelFrom(sn, d) ==
    /\ sn.ajax_pattern = d.Category \o " (" \o d.Capability \o ")"
    /\ sn.capability = d.Capability
    /\ sn.difficulty = d.Difficulty
    /\ sn.endpoint_url = d.Endpoint

\* C20: at every step, a region with at least one finding has the ajax_pattern,
\* capability, difficulty and endpoint_url of its first finding (ajax_details[1]
\* here, ajax_details[0] in the code), so no later finding changes them; and
\* ajax_details holds one entry for every match handled so far, in match order.
C20_FirstFindingDecides ==
    /\ pc \in ParsePcs =>
          \A h \in DOMAIN findings :
              findings[h].ajax_details # <<>> =>
                  TopLevelFrom(findings[h], findings[h].ajax_details[1])
    /\ pc \in {"ajax_loop", "ajax_post"} =>
          /\ Len(findings[cur].ajax_details) =
                 IF pc = "ajax_loop" THEN match_no - 1 ELSE Len(matches)
          /\ \A k \in DOMAIN findings[cur].ajax_details :
                 findings[cur].ajax_details[k].Code_Snippet =
                     Prefix(Sub(findings[cur].full_code, matches[k][1], matches[k][2] - 1), 100)

\* a region whose second finding is classified unlike its first has been
\* processed and carries the capability of the first
C20_Witness ==
    /\ pc = "ajax_post"
    /\ Len(findings[cur].ajax_details) >= 2
    /\ findings[cur].ajax_details[2].Capability # findings[cur].ajax_details[1].Capability
    /\ findings[cur].ajax_details[2].Endpoint # findings[cur].ajax_details[1].Endpoint
    /\ findings[cur].capability = findings[cur].ajax_details[1].Capability

\* the part of a region text that extract_endpoint_url searches
Searched(sn) == Prefix(sn.full_code, SEARCH_LIMIT)

\* C21: the endpoint of a finding depends only on its matched text and the
\* first 1000 characters of the region text: two findings with the same matched
\* text in regions that agree on their first 1000 characters have the same
\* endpoint, and every endpoint is a sentinel or a piece of the first 1000
\* characters (a URL that starts after them is never returned).
C21_EndpointFromSearchedPrefix ==
    /\ \A i, j \in DOMAIN findings :
          Searched(findings[i]) = Searched(findings[j]) =>
              \A m \in DOMAIN findings[i].ajax_details, n \in DOMAIN findings[j].ajax_details :
                  Lower(findings[i].ajax_details[m].Code_Snippet) =
                      Lower(findings[j].ajax_details[n].Code_Snippet)
                  => findings[i].ajax_details[m].Endpoint = findings[j].ajax_details[n].Endpoint
    /\ \A i \in DOMAIN findings : \A m \in DOMAIN findings[i].ajax_details :
          \/ findings[i].ajax_details[m].Endpoint \in SENTINELS
          \/ Contains(Searched(findings[i]), findings[i].ajax_details[m].Endpoint)

\* two regions that differ only after their first 1000 characters, each with a
\* fetch call and a URL literal there, have been classified
C21_Witness ==
    /\ pc = "done"
    /\ Len(findings) = 2
    /\ findings[1].full_code # findings[2].full_code
    /\ Searched(findings[1]) = Searched(findings[2])
    /\ \A i \in {1, 2} :
          /\ Len(findings[i].ajax_details) = 2
          /\ Contains(Sub(findings[i].full_code, SEARCH_LIMIT + 1, Len(findings[i].full_code)),
                      "fetch('/")

\* the rows of file_inventory of the directory d
RowsOfDir(d) == {q \in DOMAIN file_inventory : file_inventory[q].Directory = d}

RECURSIVE SumLines(_)
SumLines(rows) ==
    IF rows = {} THEN 0
    ELSE LET q == CHOOSE r \in rows : TRUE
         IN  file_inventory[q].Line_Count + SumLines(rows \ {q})

RECURSIVE SumPairs(_, _)
SumPairs(d, h) == IF h = 0 THEN 0 ELSE d[h][2] + SumPairs(d, h - 1)

\* the records of the files whose task did not fail, whatever the order
ExpectedRows ==
    {InventoryRow(Processed(all_files[h])) : h \in {q \in DOMAIN all_files : all_files[q].stat = "ok"}}

\* C22: in Scanner.scan no result is aggregated before every task has
\* completed; at every step of the aggregation, and for every completion
\* order, each directory has one entry of directory_stats whose count is the
\* number of its inventory records, whose lines is the sum of their line
\* counts and whose extension histogram sums to its count; and at the return
\* the inventory holds the records of the completed tasks, one each.
C22_AggregationOrderInsensitive ==
    pc \in {"scan", "scan_done"} =>
        /\ file_inventory # <<>> => future_to_file = {}
        /\ \A h, q \in DOMAIN directory_stats :
              directory_stats[h][1] = directory_stats[q][1] => h = q
        /\ \A q \in DOMAIN file_inventory :
              \E h \in DOMAIN directory_stats : directory_stats[h][1] = file_inventory[q].Directory
        /\ \A h \in DOMAIN directory_stats :
              /\ directory_stats[h][2].count = Cardinality(RowsOfDir(directory_stats[h][1]))
              /\ directory_stats[h][2].lines = SumLines(RowsOfDir(directory_stats[h][1]))
              /\ SumPairs(directory_stats[h][2].extensions,
                          Len(directory_stats[h][2].extensions)) = directory_stats[h][2].count
        /\ pc = "scan_done" =>
              /\ {file_inventory[q] : q \in DOMAIN file_inventory} = ExpectedRows
              /\ Len(file_inventory) = Cardinality(ExpectedRows)

\* a scan has returned whose tasks completed in another order than the files
\* were submitted in, with two files of one directory, both with lines
C22_Witness ==
    /\ pc = "scan_done"
    /\ Len(results) >= 2
    /\ \E a, b \in DOMAIN results :
          /\ a < b
          /\ \E h, q \in DOMAIN all_files :
                h > q /\ Processed(all_files[h]) = results[a] /\ Processed(all_files[q]) = results[b]
    /\ \E h \in DOMAIN directory_stats :
          directory_stats[h][2].count >= 2 /\ directory_stats[h][2].lines >= 1

\* no url has two fetches, every fetched url was recorded as visited, every
\* fetch is at a depth of at most MAX_DEPTH, and so is every call in progress
FetchedOnceWithinDepth ==
    /\ \A h, q \in DOMAIN responses : responses[h].url = responses[q].url => h = q
    /\ \A h \in DOMAIN responses :
          /\ responses[h].url \in visited
          /\ responses[h].depth \in 0..MAX_DEPTH
    /\ \A h \in DOMAIN stack :
          /\ stack[h].depth = h - 1
          /\ stack[h].depth <= MAX_DEPTH

\* C23: in every execution of Crawler.crawl each url is fetched at most
\* once, a fetched url is in visited, every fetch happens at a depth of at
\* most MAX_DEPTH, and the crawl comes to its end.
C23_FetchedOnceAndTerminates ==
    /\ [](FetchedOnceWithinDepth)
    /\ <>(pc = "crawl_done")

\* a crawl is over that fetched a page at depth MAX_DEPTH and, later, a page
\* with a link back to the base URL
C23_Witness ==
    /\ pc = "crawl_done"
    /\ \E h, q \in DOMAIN responses :
          /\ h < q
          /\ responses[h].depth = MAX_DEPTH
          /\ responses[h].outcome = "html"
          /\ responses[q].outcome = "html"
          /\ base_url \in FollowedLinks(responses[q].url)

\* the entry d carries the verdict v
Carries(d, v) ==
    /\ d.Category = v.category
    /\ d.Capability = v.capability
    /\ d.Difficulty = v.difficulty
    /\ d.Is_Counted = (IF v.is_logical_request THEN "Yes" ELSE "No")

\* C24: the classifier of detect_ajax_patterns and the classifier of the
\* depth analyser agree: every entry that one of them makes for a matched text
\* carries the category, capability, difficulty and counted verdict that the
\* other gives for that text.
C24_ClassifiersInSync ==
    /\ \A i \in DOMAIN findings : \A m \in DOMAIN findings[i].ajax_details :
          Carries(findings[i].ajax_details[m],
                  ClassifyDepth(Lower(findings[i].ajax_details[m].Code_Snippet)))
    /\ pc \in {"depth_loop", "depth_post", "depth_done"} =>
          \A m \in DOMAIN metrics.ajax_details :
              Carries(metrics.ajax_details[m],
                      ClassifyAjax(Lower(metrics.ajax_details[m].Code_Snippet)))

\* the region has the AJAX fields that CodeSnippet.__init__ gave it
Unenriched(sn) ==
    /\ sn.ajax_detected = FALSE
    /\ sn.ajax_count = 0
    /\ sn.ajax_details = <<>>
    /\ sn.ajax_pattern = ""
    /\ sn.capability = "Unknown"
    /\ sn.difficulty = "Unknown"
    /\ sn.endpoint_url = ""

\* the region in turn is not JS, or the primary matcher finds nothing in it
NothingToDetect ==
    /\ pc = "enrich"
    /\ findings[cur].category # "JS" \/ AjaxMatches(findings[cur].full_code) = <<>>

\* C25: detect_ajax_patterns has an outcome for every region; on a region
\* that is not JS or in which the primary matcher finds no match, it changes
\* no field of any region and makes no entry: the region keeps ajax_detected
\* false, ajax_count 0, no ajax_details, capability and difficulty "Unknown"
\* and an empty endpoint_url.
C25_NoMatchChangesNothing ==
    /\ [](pc = "enrich" => ENABLED (DetectStart \/ EnrichOther))
    /\ [][NothingToDetect =>
            /\ findings' = findings
            /\ Unenriched(findings'[cur])
            /\ pc' \in {"dynamic", "assess"}]_vars

\* the enrichment has passed a JS region without a match and a region that is not JS
C25_Witness ==
    /\ pc = "done"
    /\ \E i, j \in DOMAIN findings :
          /\ findings[i].category = "JS"
          /\ AjaxMatches(findings[i].full_code) = <<>>
          /\ findings[j].category # "JS"
          /\ Unenriched(findings[i]) /\ Unenriched(findings[j])

\* the regions whose Phase 4 step has run
AssessedRegions ==
    IF pc = "done" THEN DOMAIN findings
    ELSE IF pc \in {"enrich", "ajax_loop", "ajax_post", "dynamic", "assess"} THEN 1..(cur - 1)
    ELSE {}

\* the complexity of the region is the bucket of its score
Bucketed(sn) ==
    sn.complexity = (IF sn.logic_density_score >= 5 THEN "High"
                     ELSE IF sn.logic_density_score >= 2 THEN "Medium" ELSE "Low")

\* the score is points, less 2 when the region has a DOM-selector call and
\* points is below 2
ScoredFrom(sn, points) ==
    sn.logic_density_score =
        points - (IF Phase4(sn.full_code).selectors > 0 /\ points < 2 THEN 2 ELSE 0)

ShownOutcomes(sn) == {Shown(sn.ajax_details[m]) : m \in DOMAIN sn.ajax_details}

\* the branches of the rule chain whose condition a matched text of the
\* analysed regions satisfies
Satisfied ==
    {r \in DOMAIN Catalogue :
        \E i \in DOMAIN findings : \E m \in DOMAIN findings[i].ajax_details :
            Fires(Catalogue[r], MatchedLower(findings[i], m))}

\* C27: every outcome written in the rule chain of detect_ajax_patterns is
\* reachable: once the file that holds a matched text for each branch of the
\* Fetch API Construct, hidden iframe, Prototype.js, MooTools and XHR rules has
\* been analysed,
\* every branch whose condition one of the matched texts satisfies (the two
\* "MooTools/Fetch Request" outcomes and the counted "XHR Construct" included)
\* has classified one of the findings, none being captured by an earlier rule
\* every time.
C27_EveryOutcomeReachable ==
    (pc = "done" /\ content = Tour) =>
        \A r \in Satisfied :
            \E i \in DOMAIN findings : AsShown(Catalogue[r].v) \in ShownOutcomes(findings[i])

\* C28: every region returned by Parser.parse has end_line >= start_line, and
\* a region taken from markup (every region but the standalone region of a
\* .js file) has end_line = start_line + the number of newline characters of
\* its extracted text; this for every content, the empty file included.
C28_EndLineNotBeforeStart ==
    pc \in ParsePcs =>
        \A i \in DOMAIN findings :
            /\ findings[i].end_line >= findings[i].start_line
            /\ findings[i].code_type # "standalone_js" =>
                   findings[i].end_line
                       = findings[i].start_line + Count(findings[i].full_code, "\n")

\* the pages reachable from b through at most n links that the crawler follows
\* (internal, no skipped extension)
RECURSIVE Within(_, _)
Within(b, n) ==
    IF n = 0 THEN {b}
    ELSE Within(b, n - 1) \cup
         {t[4] : t \in {x \in LinkTable : x[1] = b /\ x[5] /\ x[2] \in Within(b, n - 1)}}

ReachTable == { <<b, Within(b, MAX_DEPTH) \cap {p.url : p \in Web}>> : b \in BaseUrls }

Reachable(b) == (CHOOSE t \in ReachTable : t[1] = b)[2]

\* every fetch of the crawl gave an HTML page with status 200
EveryFetchSucceeded == \A k \in DOMAIN responses : responses[k].outcome = "html"

\* C29: when crawl from the base URL has returned and every fetch succeeded,
\* every internal page reachable from the base URL through at most MAX_DEPTH
\* followed links is in visited and in assets_to_scan, whatever the order of
\* the links on the pages.
C29_ReachableWithinDepthVisited ==
    (pc = "crawl_done" /\ EveryFetchSucceeded) =>
        \A u \in Reachable(base_url) : u \in visited /\ <<u, "html">> \in assets_to_scan

\* urlparse(url).netloc
UrlHost(url) == netloc(url, SchemeLen(url))

\* C30: at every point of a crawl, assets_to_scan holds only URLs of the host
\* of the base URL, external_assets only URLs of other hosts, no URL is in
\* both, and every URL the crawler has requested is internal.
C30_InternalExternalSeparated ==
    pc \in {"crawl_start", "crawl", "crawl_done"} =>
        /\ \A a \in assets_to_scan : UrlHost(a[1]) = UrlHost(base_url)
        /\ \A k \in DOMAIN external_assets :
               /\ UrlHost(external_assets[k].url) # UrlHost(base_url)
               /\ \A a \in assets_to_scan : a[1] # external_assets[k].url
        /\ \A k \in DOMAIN responses : UrlHost(responses[k].url) = UrlHost(base_url)
        /\ visited = {responses[k].url : k \in DOMAIN responses}

\* a crawl has ended that met an external link, kept an internal script and
\* recorded an external script and an external stylesheet
C30_Witness ==
    /\ pc = "crawl_done"
    /\ \E a \in assets_to_scan : a[2] = "js"
    /\ \E k \in DOMAIN external_assets : external_assets[k].type = "Script"
    /\ \E k \in DOMAIN external_assets : external_assets[k].type = "Stylesheet"
    /\ \E k \in DOMAIN responses :
          /\ responses[k].outcome = "html"
          /\ \E at \in DOMAIN PageOf(responses[k].url).links :
                UrlHost(Link(base_url, [url |-> responses[k].url, at |-> at])[4]) # UrlHost(base_url)
====
